---- MODULE Spec2Model ----
(***************************************************************************)
(* Model of the PA-CRM backend: the relational store (Tenant, User, Fee,   *)
(* Commission, Template, Document, DocumentVersion), the services that     *)
(* read and write it, the authentication / role middleware and the route   *)
(* tables that chain them in front of the controllers.                     *)
(*                                                                         *)
(* Three specifications share the store:                                   *)
(*   Spec      the fee, commission and template services called directly   *)
(*             (any caller, any arguments the store accepts);              *)
(*   SpecHttp  HTTP requests travelling through the middleware chain of    *)
(*             their route into the controller;                            *)
(*   SpecDoc   the document service with interleaved updateDocument calls  *)
(*             and failing writes.                                         *)
(***************************************************************************)
EXTENDS Integers, Sequences, FiniteSets, TLC

(* ---------------------------------------------------------------- bounds *)
MaxTenants == 2
MaxUsers == 2
MaxFees == 1
MaxCommissions == 2
MaxTemplates == 1
MaxDocs == 1
MaxCalls == 2

(* ------------------------------------------------------- input alphabets *)
TenantNames == {"Acme"}
Emails == {"a@x.com", "b@x.com"}
Passwords == {"pw1"}
Amounts == {1000, 2000}
Percentages == {10, 15}
CaseIds == {"case1"}
Statuses == {"PAID"}
Dates == {"2025-06-01"}
TemplateNames == {"tplA", "tplB"}
Categories == {"letters"}
DocNames == {"Policy_ABC"}
MimeTypes == {"application/pdf", "text/plain"}
Sizes == {1024}
Files == {"fileA"}
Metadatas == {"m1"}

(* absent values: JavaScript undefined / SQL NULL; NoId is the id no row has
   and the value of an id that was not given *)
Undefined == "undefined"
SqlNull == "null"
NoDate == SqlNull
NoStatus == "unset"
NoId == 0
Null == [null |-> TRUE]

VARIABLES
  tenants,      \* Tenant rows
  users,        \* User rows
  fees,         \* Fee rows
  commissions,  \* Commission rows
  templates,    \* Template rows
  documents,    \* Document rows
  versions,     \* DocumentVersion rows, in the order they were inserted
  blobs,        \* the objects held by the object store
  nextId,       \* per table, the number of ids generated so far
  calls,        \* updateDocument calls in progress, each at its await
  hist,         \* per document, the record of the update calls made on it
  issued,       \* the token payloads signed so far
  req           \* the HTTP request being served

docVars == <<documents, versions, blobs, calls, hist>>
httpVars == <<issued, req>>
vars == <<tenants, users, fees, commissions, templates, documents, versions,
          blobs, nextId, calls, hist, issued, req>>

Tables == {"tenant", "user", "fee", "commission", "template", "document"}

(* a freshly generated primary key (uuid): never one handed out before *)
NewId(table) == nextId[table] + 1

Bump(table) == [nextId EXCEPT ![table] = @ + 1]

Ids(rows) == {r.id : r \in rows}

Row(rows, id) == CHOOSE r \in rows : r.id = id

(* prisma findFirst / findUnique: one matching row, or null *)
FindFirst(matching) == IF matching = {} THEN Null ELSE CHOOSE r \in matching : TRUE

(* --------------------------------------------------------------- tenants *)
(* POST /api/tenants: prisma.tenant.create({ data: { name } }) *)
createTenant(name) ==
  [tenants |-> tenants \cup {[id |-> NewId("tenant"), name |-> name]},
   res |-> "ok"]

(* ----------------------------------------------------------------- users *)
(* bcrypt.hash / bcrypt.compare *)
Hash(password) == "bcrypt:" \o password

Compare(password, hashed) == hashed = Hash(password)

(* the payload generateToken signs: user id and tenant id, nothing else *)
generateToken(userId, tenantId) ==
  [userId |-> userId, tenantId |-> tenantId, role |-> Undefined]

(* faulty variant of sanitizeUser: the row as it is stored *)
wholeUser(user) == user

(* sanitizeUser: the row without its password *)
sanitizeUser(user) ==
  [id |-> user.id, email |-> user.email, role |-> user.role, tenantId |-> user.tenantId]

(* prisma.user.findUnique({ where: { email } }) *)
FindUserByEmail(email) == FindFirst({u \in users : u.email = email})

(* the User row prisma.user.create writes: data is the request body as
   received, so a role in it is persisted; without one the column default
   USER applies *)
UserRow(data) ==
  [id |-> NewId("user"),
   email |-> data.email,
   password |-> Hash(data.password),
   role |-> IF data.role = Undefined THEN "USER" ELSE data.role,
   tenantId |-> data.tenantId]

(* faulty variant of UserCreate: the table has no unique index on email *)
UserCreateUnindexed(data) ==
  IF data.tenantId \notin Ids(tenants)
    THEN [users |-> users, res |-> "P2003", user |-> Null]
  ELSE [users |-> users \cup {UserRow(data)}, res |-> "ok", user |-> UserRow(data)]

(* prisma.user.create({ data }): one statement; the unique index
   User_email_key rejects a second row with the same email (P2002), the
   foreign key on tenantId a tenant that is not there (P2003) *)
UserCreate(data) ==
  IF \E u \in users : u.email = data.email
    THEN [users |-> users, res |-> "P2002", user |-> Null]
  ELSE IF data.tenantId \notin Ids(tenants)
    THEN [users |-> users, res |-> "P2003", user |-> Null]
  ELSE [users |-> users \cup {UserRow(data)}, res |-> "ok", user |-> UserRow(data)]

(* UserService.createUser(data), run without another request in between:
   findUnique by email, AppError 400 when a row is found, else hash, create,
   sign a token and return the user without its password *)
createUser(data) ==
  IF FindUserByEmail(data.email) # Null
    THEN [users |-> users, res |-> "400", user |-> Null, token |-> Null]
  ELSE LET r == UserCreate(data)
       IN IF r.res # "ok"
            THEN [users |-> users, res |-> r.res, user |-> Null, token |-> Null]
          ELSE [users |-> r.users, res |-> "ok",
                user |-> sanitizeUser(r.user),
                token |-> generateToken(r.user.id, r.user.tenantId)]

(* ------------------------------------------------------------------ fees *)
(* FeeService.createFee(data): prisma.fee.create({ data }); the foreign keys
   on tenantId and createdBy must resolve.  description, type and dueDate are
   stored as given and read by nothing.  The Case rows that CaseIds name are
   there from the start: no service of this backend writes the Case table. *)
createFee(data) ==
  IF data.tenantId \notin Ids(tenants) \/ data.createdBy \notin Ids(users)
    THEN [fees |-> fees, res |-> "P2003", fee |-> Null]
  ELSE LET fee == [id |-> NewId("fee"),
                   caseId |-> data.caseId,
                   amount |-> data.amount,
                   status |-> NoStatus,
                   paidDate |-> NoDate,
                   tenantId |-> data.tenantId,
                   createdBy |-> data.createdBy]
       IN [fees |-> fees \cup {fee}, res |-> "ok", fee |-> fee]

(* include: { user: { select: { id, name, email } } } *)
CommissionUser(c) ==
  LET u == FindFirst({x \in users : x.id = c.userId})
  IN IF u = Null THEN Null ELSE [id |-> u.id, email |-> u.email]

(* include: { commissions: { include: { user } } } *)
FeeCommissions(f) ==
  {[commission |-> c, user |-> CommissionUser(c)] : c \in {x \in commissions : x.feeId = f.id}}

FeeWithCommissions(f) == [fee |-> f, commissions |-> FeeCommissions(f)]

(* FeeService.getFee(id, tenantId) *)
getFee(id, tenantId) ==
  LET f == FindFirst({x \in fees : x.id = id /\ x.tenantId = tenantId})
  IN IF f = Null THEN Null ELSE FeeWithCommissions(f)

(* faulty variant of Given: only a missing filter counts as none *)
GivenUnlessMissing(filter) == filter # Undefined

(* `filter ? { ... } : {}`: a filter that is missing or the empty string is
   no filter *)
Given(filter) == filter \notin {Undefined, ""}

(* createdAt (DEFAULT CURRENT_TIMESTAMP): the order of creation, which is the
   order in which the ids of a table are handed out *)
CreatedAt(row) == row.id

(* faulty variant of OrderByCreatedAtDesc: oldest first *)
OrderByCreatedAtAsc(rows) ==
  CHOOSE seq \in [1..Cardinality(rows) -> rows] :
    \A i \in DOMAIN seq, j \in DOMAIN seq :
      i < j => CreatedAt(seq[i]) < CreatedAt(seq[j])

(* orderBy: { createdAt: 'desc' } *)
OrderByCreatedAtDesc(rows) ==
  CHOOSE seq \in [1..Cardinality(rows) -> rows] :
    \A i \in DOMAIN seq, j \in DOMAIN seq :
      i < j => CreatedAt(seq[i]) > CreatedAt(seq[j])

(* FeeService.listFees(tenantId, caseId): the rows returned (their order is
   createdAt desc) *)
listFees(tenantId, caseId) ==
  {FeeWithCommissions(f) :
     f \in {x \in fees : x.tenantId = tenantId
                         /\ (Given(caseId) => x.caseId = caseId)}}

(* FeeService.listFees(tenantId, caseId): the rows in the order returned *)
listFeesInOrder(tenantId, caseId) ==
  LET found == OrderByCreatedAtDesc({r.fee : r \in listFees(tenantId, caseId)})
  IN [i \in DOMAIN found |-> FeeWithCommissions(found[i])]

(* faulty variant of updateFeeStatus: paidDate is written as it came, so a
   call without one clears the column *)
updateFeeStatusClearing(id, tenantId, status, paidDate) ==
  IF id \notin Ids(fees)
    THEN [fees |-> fees, res |-> "P2025"]
  ELSE LET old == Row(fees, id)
           new == [old EXCEPT !.status = status, !.paidDate = paidDate]
       IN [fees |-> (fees \ {old}) \cup {new}, res |-> "ok"]

(* FeeService.updateFeeStatus(id, tenantId, status, paidDate):
   prisma.fee.update({ where: { id }, data: { status, paidDate? } }) *)
updateFeeStatus(id, tenantId, status, paidDate) ==
  IF id \notin Ids(fees)
    THEN [fees |-> fees, res |-> "P2025"]
  ELSE LET old == Row(fees, id)
           new == [old EXCEPT !.status = status,
                              !.paidDate = IF paidDate # NoDate THEN paidDate ELSE @]
       IN [fees |-> (fees \ {old}) \cup {new}, res |-> "ok"]

(* faulty variant of CommissionAmount: the division by 100 is left out *)
CommissionAmountUnscaled(amount, percentage) == amount * percentage

(* fee.amount * percentage / 100 (exact for the amounts enumerated here) *)
CommissionAmount(amount, percentage) == (amount * percentage) \div 100

(* FeeService.createCommission(data): the fee is looked up by id alone *)
createCommission(data) ==
  LET fee == FindFirst({x \in fees : x.id = data.feeId})
  IN IF fee = Null
       THEN [commissions |-> commissions, res |-> "Fee not found", commission |-> Null]
     ELSE IF data.userId \notin Ids(users) \/ data.tenantId \notin Ids(tenants)
       THEN [commissions |-> commissions, res |-> "P2003", commission |-> Null]
     ELSE LET c == [id |-> NewId("commission"),
                    feeId |-> data.feeId,
                    userId |-> data.userId,
                    percentage |-> data.percentage,
                    tenantId |-> data.tenantId,
                    amount |-> CommissionAmount(fee.amount, data.percentage),
                    status |-> NoStatus,
                    paidDate |-> NoDate]
          IN [commissions |-> commissions \cup {c}, res |-> "ok", commission |-> c]

(* faulty variant of updateCommissionStatus: the amount is overwritten with the
   fee's amount when the status is written *)
updateCommissionStatusRecomputing(id, tenantId, status, paidDate) ==
  IF id \notin Ids(commissions)
    THEN [commissions |-> commissions, res |-> "P2025"]
  ELSE LET old == Row(commissions, id)
           new == [old EXCEPT !.status = status,
                              !.amount = Row(fees, old.feeId).amount]
       IN [commissions |-> (commissions \ {old}) \cup {new}, res |-> "ok"]

(* FeeService.updateCommissionStatus(id, tenantId, status, paidDate) *)
updateCommissionStatus(id, tenantId, status, paidDate) ==
  IF id \notin Ids(commissions)
    THEN [commissions |-> commissions, res |-> "P2025"]
  ELSE LET old == Row(commissions, id)
           new == [old EXCEPT !.status = status,
                              !.paidDate = IF paidDate # NoDate THEN paidDate ELSE @]
       IN [commissions |-> (commissions \ {old}) \cup {new}, res |-> "ok"]

(* FeeService.getCommissionsByUser(userId, tenantId): include: { fee: true } *)
getCommissionsByUser(userId, tenantId) ==
  {[commission |-> c, fee |-> FindFirst({f \in fees : f.id = c.feeId})] :
     c \in {x \in commissions : x.userId = userId /\ x.tenantId = tenantId}}

(* FeeService.getCommissionsByFee(feeId, tenantId): include: { user } *)
getCommissionsByFee(feeId, tenantId) ==
  {[commission |-> c, user |-> CommissionUser(c)] :
     c \in {x \in commissions : x.feeId = feeId /\ x.tenantId = tenantId}}

(* ------------------------------------------------------------- templates *)
(* TemplateService.createTemplate(data); description, content and variables
   are stored as given and read by nothing *)
createTemplate(data) ==
  IF data.tenantId \notin Ids(tenants) \/ data.createdBy \notin Ids(users)
    THEN [templates |-> templates, res |-> "P2003", template |-> Null]
  ELSE LET t == [id |-> NewId("template"),
                 name |-> data.name,
                 category |-> data.category,
                 tenantId |-> data.tenantId,
                 createdBy |-> data.createdBy]
       IN [templates |-> templates \cup {t}, res |-> "ok", template |-> t]

(* TemplateService.getTemplate(id, tenantId) *)
getTemplate(id, tenantId) ==
  FindFirst({x \in templates : x.id = id /\ x.tenantId = tenantId})

(* TemplateService.listTemplates(tenantId, category) *)
listTemplates(tenantId, category) ==
  {x \in templates : x.tenantId = tenantId
                     /\ (Given(category) => x.category = category)}

(* TemplateService.listTemplates(tenantId, category): the rows in the order
   returned *)
listTemplatesInOrder(tenantId, category) ==
  OrderByCreatedAtDesc(listTemplates(tenantId, category))

(* TemplateService.updateTemplate(id, tenantId, data):
   prisma.template.update({ where: { id }, data }); an undefined field of
   data is left as it is *)
updateTemplate(id, tenantId, data) ==
  IF id \notin Ids(templates)
    THEN [templates |-> templates, res |-> "P2025"]
  ELSE LET old == Row(templates, id)
           new == [old EXCEPT !.name = IF data.name # Undefined THEN data.name ELSE @,
                              !.category = IF data.category # Undefined
                                             THEN data.category ELSE @]
       IN [templates |-> (templates \ {old}) \cup {new}, res |-> "ok"]

(* TemplateService.deleteTemplate(id, tenantId):
   prisma.template.delete({ where: { id } }) *)
deleteTemplate(id, tenantId) ==
  IF id \notin Ids(templates)
    THEN [templates |-> templates, res |-> "P2025"]
  ELSE [templates |-> templates \ {Row(templates, id)}, res |-> "ok"]

(* ------------------------------------------------------------- documents *)
OcrTypes == {"application/pdf", "image/jpeg", "image/png"}

SampleText == "Sample extracted text from document"

(* DocumentService.extractTextFromDocument: the placeholder text *)
extractTextFromDocument(file, mimeType) == SampleText

(* faulty variant of OcrText: the text is extracted whatever the type *)
OcrTextOfAnyType(file, mimeType) == extractTextFromDocument(file, mimeType)

(* let ocrText; if (OcrTypes.includes(mimeType)) ocrText = extractText(...) *)
OcrText(file, mimeType) ==
  IF mimeType \in OcrTypes THEN extractTextFromDocument(file, mimeType) ELSE Undefined

(* metadata ? JSON.stringify(metadata) : undefined *)
Stringify(metadata) ==
  IF metadata = Undefined THEN Undefined ELSE "json:" \o metadata

(* uuidv4(): a key no other upload has; an upload is either the one of the
   n-th createDocument call or the one of the n-th updateDocument call *)
Uuid(kind, n) == kind \o ToString(n)

(* `${uuidv4()}-${name}` *)
Filename(uuid, name) == uuid \o "-" \o name

(* DocumentService.uploadToSpaces: the object stored and the URL returned *)
StoredObject(file, filename, mimeType) ==
  [key |-> filename, body |-> file, contentType |-> mimeType]

(* `${process.env.DO_SPACES_CDN_URL}/${filename}` *)
CdnUrl(filename) == "cdn/" \o filename

(* a column written with undefined on create is NULL *)
OrNull(value) == IF value = Undefined THEN SqlNull ELSE value

(* faulty variant of DocumentRow: the object key is stored as the name *)
DocumentRowNamedByKey(id, data, url, ocrText, metadata) ==
  [id |-> id,
   name |-> Filename(Uuid("create", id), data.name),
   mimeType |-> data.mimeType,
   size |-> data.size,
   url |-> url,
   ocrText |-> OrNull(ocrText),
   metadata |-> OrNull(Stringify(metadata)),
   version |-> 1,
   caseId |-> OrNull(data.caseId),
   tenantId |-> data.tenantId,
   createdBy |-> data.createdBy]

(* prisma.document.create({ data: { ...data, url, ocrText, metadata } });
   version takes the column default 1 *)
DocumentRow(id, data, url, ocrText, metadata) ==
  [id |-> id,
   name |-> data.name,
   mimeType |-> data.mimeType,
   size |-> data.size,
   url |-> url,
   ocrText |-> OrNull(ocrText),
   metadata |-> OrNull(Stringify(metadata)),
   version |-> 1,
   caseId |-> OrNull(data.caseId),
   tenantId |-> data.tenantId,
   createdBy |-> data.createdBy]

(* faulty variant of FindDocument: the lookup is by id alone *)
FindDocumentOfAnyTenant(id, tenantId) == FindFirst({d \in documents : d.id = id})

(* DocumentService.getDocument(id, tenantId): include versions, newest first;
   prisma.document.findFirst({ where: { id, tenantId } }) *)
FindDocument(id, tenantId) ==
  FindFirst({d \in documents : d.id = id /\ d.tenantId = tenantId})

VersionsOf(id) == SelectSeq(versions, LAMBDA v : v.documentId = id)

getDocument(id, tenantId) ==
  LET d == FindDocument(id, tenantId)
  IN IF d = Null THEN Null ELSE [document |-> d, versions |-> VersionsOf(d.id)]

(* DocumentService.listDocuments(tenantId, caseId) *)
listDocuments(tenantId, caseId) ==
  {d \in documents : d.tenantId = tenantId
                     /\ (Given(caseId) => d.caseId = caseId)}

(* DocumentService.listDocuments(tenantId, caseId): the rows in the order
   returned *)
listDocumentsInOrder(tenantId, caseId) ==
  OrderByCreatedAtDesc(listDocuments(tenantId, caseId))

(* DocumentService.getDocumentVersion(documentId, version, tenantId) *)
getDocumentVersion(documentId, version, tenantId) ==
  FindFirst({versions[i] : i \in
     {j \in DOMAIN versions :
        /\ versions[j].documentId = documentId
        /\ versions[j].version = version
        /\ \E d \in documents : d.id = documentId /\ d.tenantId = tenantId}})

(* faulty variant of NextVersion: the number of the row that was read *)
NextVersionStale(document) == document.version

(* the version number updateDocument gives the row it inserts and the
   document it rewrites: document.version + 1, from the row it read *)
NextVersion(document) == document.version + 1

(* faulty variant of VersionRow: the row copies the document that was read *)
VersionRowOfPrior(document, url, ocrText, metadata) ==
  [documentId |-> document.id,
   version |-> NextVersion(document),
   url |-> document.url,
   ocrText |-> document.ocrText,
   metadata |-> document.metadata,
   createdBy |-> document.createdBy]

(* prisma.documentVersion.create({ data: { documentId, version, url, ocrText,
   metadata, createdBy } }) *)
VersionRow(document, url, ocrText, metadata) ==
  [documentId |-> document.id,
   version |-> NextVersion(document),
   url |-> url,
   ocrText |-> OrNull(ocrText),
   metadata |-> OrNull(Stringify(metadata)),
   createdBy |-> document.createdBy]

(* faulty variant of InsertVersion: a row of the same document and version
   is replaced *)
UpsertVersion(rows, row) ==
  IF \E i \in DOMAIN rows : rows[i].documentId = row.documentId
                            /\ rows[i].version = row.version
    THEN [i \in DOMAIN rows |->
            IF rows[i].documentId = row.documentId /\ rows[i].version = row.version
              THEN row ELSE rows[i]]
  ELSE Append(rows, row)

(* prisma.documentVersion.create: an INSERT; the table has no unique key on
   (documentId, version) that could reject it *)
InsertVersion(rows, row) == Append(rows, row)

(* faulty variant of DocumentUpdate: the version is counted up from the row
   as it is when the statement runs *)
DocumentUpdateIncrementing(current, document, url, ocrText, metadata) ==
  [current EXCEPT
     !.version = @ + 1,
     !.url = url,
     !.ocrText = IF ocrText = Undefined THEN @ ELSE ocrText,
     !.metadata = IF metadata = Undefined THEN @ ELSE Stringify(metadata)]

(* prisma.document.update({ where: { id }, data: { version, url, ocrText,
   metadata } }): a field given as undefined is left as it is *)
DocumentUpdate(current, document, url, ocrText, metadata) ==
  [current EXCEPT
     !.version = NextVersion(document),
     !.url = url,
     !.ocrText = IF ocrText = Undefined THEN @ ELSE ocrText,
     !.metadata = IF metadata = Undefined THEN @ ELSE Stringify(metadata)]

(* ---------------------------------------------------------------- search *)
(* the characters of the strings that are searched or searched for *)
Text(s) ==
  CASE s = "Policy_ABC" -> <<"P", "o", "l", "i", "c", "y", "_", "A", "B", "C">>
    [] s = "invoice" -> <<"i", "n", "v", "o", "i", "c", "e">>
    [] s = "Sample extracted text from document" ->
       <<"S", "a", "m", "p", "l", "e", " ", "e", "x", "t", "r", "a",
         "c", "t", "e", "d", " ", "t", "e", "x", "t", " ", "f", "r",
         "o", "m", " ", "d", "o", "c", "u", "m", "e", "n", "t">>
    [] s = "json:m1" -> <<"j", "s", "o", "n", ":", "m", "1">>
    [] s = "policy" -> <<"p", "o", "l", "i", "c", "y">>
    [] s = "SAMPLE" -> <<"S", "A", "M", "P", "L", "E">>
    [] s = "M1" -> <<"M", "1">>
    [] s = "zzz" -> <<"z", "z", "z">>

UpperCase == {"A", "B", "C", "D", "E", "F", "G", "H", "I", "J", "K", "L", "M",
              "N", "O", "P", "Q", "R", "S", "T", "U", "V", "W", "X", "Y", "Z"}

LowerOf ==
  ("A" :> "a") @@ ("B" :> "b") @@ ("C" :> "c") @@ ("D" :> "d")
  @@ ("E" :> "e") @@ ("F" :> "f") @@ ("G" :> "g") @@ ("H" :> "h")
  @@ ("I" :> "i") @@ ("J" :> "j") @@ ("K" :> "k") @@ ("L" :> "l")
  @@ ("M" :> "m") @@ ("N" :> "n") @@ ("O" :> "o") @@ ("P" :> "p")
  @@ ("Q" :> "q") @@ ("R" :> "r") @@ ("S" :> "s") @@ ("T" :> "t")
  @@ ("U" :> "u") @@ ("V" :> "v") @@ ("W" :> "w") @@ ("X" :> "x")
  @@ ("Y" :> "y") @@ ("Z" :> "z")

(* faulty variant of Lower: characters are compared as they are *)
SameCase(char) == char

(* mode: 'insensitive': a character compared without regard to its case *)
Lower(char) == IF char \in UpperCase THEN LowerOf[char] ELSE char

ToLower(text) == [i \in DOMAIN text |-> Lower(text[i])]

(* contains: `part` occurs in `text` as a run of consecutive characters *)
Contains(text, part) ==
  \E i \in 0..(Len(text) - Len(part)) : SubSeq(text, i + 1, i + Len(part)) = part

(* { contains: query, mode: 'insensitive' } on a nullable text column *)
ContainsInsensitive(value, query) ==
  /\ value # SqlNull
  /\ Contains(ToLower(Text(value)), ToLower(Text(query)))

(* DocumentService.searchDocuments(tenantId, query): the rows returned *)
searchDocuments(tenantId, query) ==
  {d \in documents :
     /\ d.tenantId = tenantId
     /\ \/ ContainsInsensitive(d.name, query)
        \/ ContainsInsensitive(d.ocrText, query)
        \/ ContainsInsensitive(d.metadata, query)}

(* DocumentService.searchDocuments(tenantId, query): the rows in the order
   returned *)
searchDocumentsInOrder(tenantId, query) ==
  OrderByCreatedAtDesc(searchDocuments(tenantId, query))

(* an updateDocument call that nothing interrupts and in which nothing fails:
   the rows and objects it leaves behind *)
updateDocumentRun(uuid, id, tenantId, file, metadata) ==
  LET document == FindDocument(id, tenantId)
  IN IF document = Null
       THEN [res |-> "Document not found", documents |-> documents,
             versions |-> versions, blobs |-> blobs]
     ELSE LET filename == Filename(uuid, document.name)
              url == CdnUrl(filename)
              ocrText == OcrText(file, document.mimeType)
          IN [res |-> "ok",
              blobs |-> blobs \cup {StoredObject(file, filename, document.mimeType)},
              versions |-> InsertVersion(versions,
                                         VersionRow(document, url, ocrText, metadata)),
              documents |-> (documents \ {document}) \cup
                             {DocumentUpdate(document, document, url, ocrText, metadata)}]

(* ------------------------------------------------------- users, continued *)
(* faulty variant of login: an unknown email is told apart from a wrong
   password *)
loginNamingTheCause(data) ==
  LET user == FindUserByEmail(data.email)
  IN IF user = Null
       THEN [res |-> "404", message |-> "User not found", user |-> Null,
             token |-> Null]
     ELSE IF ~Compare(data.password, user.password)
       THEN [res |-> "401", message |-> "Invalid credentials", user |-> Null,
             token |-> Null]
     ELSE [res |-> "ok", message |-> "", user |-> sanitizeUser(user),
           token |-> generateToken(user.id, user.tenantId)]

(* UserService.login(data) *)
login(data) ==
  LET user == FindUserByEmail(data.email)
  IN IF user = Null
       THEN [res |-> "401", message |-> "Invalid credentials", user |-> Null,
             token |-> Null]
     ELSE IF ~Compare(data.password, user.password)
       THEN [res |-> "401", message |-> "Invalid credentials", user |-> Null,
             token |-> Null]
     ELSE [res |-> "ok", message |-> "", user |-> sanitizeUser(user),
           token |-> generateToken(user.id, user.tenantId)]

(* UserService.getUserProfile(userId) *)
getUserProfile(userId) ==
  LET user == FindFirst({u \in users : u.id = userId})
  IN IF user = Null THEN [res |-> "404", user |-> Null]
     ELSE [res |-> "ok", user |-> sanitizeUser(user)]

(* UserService.updateUserProfile(userId, data): data is the request body as
   received; prisma.user.update({ where: { id: userId }, data }) writes every
   column named in it and leaves the others *)
updateUserProfile(userId, data) ==
  IF userId \notin Ids(users) THEN [res |-> "P2025", users |-> users, user |-> Null]
  ELSE IF data.email # Undefined
          /\ \E u \in users : u.id # userId /\ u.email = data.email
    THEN [res |-> "P2002", users |-> users, user |-> Null]
  ELSE IF data.tenantId # NoId /\ data.tenantId \notin Ids(tenants)
    THEN [res |-> "P2003", users |-> users, user |-> Null]
  ELSE LET old == Row(users, userId)
           new == [old EXCEPT
                     !.email = IF data.email # Undefined THEN data.email ELSE @,
                     !.role = IF data.role # Undefined THEN data.role ELSE @,
                     !.tenantId = IF data.tenantId # NoId THEN data.tenantId ELSE @]
       IN [res |-> "ok", users |-> (users \ {old}) \cup {new},
           user |-> sanitizeUser(new)]

(* UserService.listUsers(tenantId): select id, email, names, role, dates *)
listUsers(tenantId) ==
  {[id |-> u.id, email |-> u.email, role |-> u.role] :
     u \in {x \in users : x.tenantId = tenantId}}

(* UserService.changeUserRole(userId, role) *)
changeUserRole(userId, role) ==
  IF userId \notin Ids(users) THEN [res |-> "P2025", users |-> users, user |-> Null]
  ELSE LET old == Row(users, userId)
           new == [old EXCEPT !.role = role]
       IN [res |-> "ok", users |-> (users \ {old}) \cup {new},
           user |-> sanitizeUser(new)]

(* rows whose foreign key (ON DELETE RESTRICT) names the user *)
ReferencesUser(userId) ==
  \/ \E f \in fees : f.createdBy = userId
  \/ \E c \in commissions : c.userId = userId
  \/ \E t \in templates : t.createdBy = userId
  \/ \E d \in documents : d.createdBy = userId
  \/ \E i \in DOMAIN versions : versions[i].createdBy = userId

(* UserService.deleteUser(userId) *)
deleteUser(userId) ==
  IF userId \notin Ids(users) THEN [res |-> "P2025", users |-> users]
  ELSE IF ReferencesUser(userId) THEN [res |-> "P2003", users |-> users]
  ELSE [res |-> "ok", users |-> users \ {Row(users, userId)}]

(* ------------------------------------------------------------------------ *)
(* Spec: the services called directly.  A create call carries the identity  *)
(* of an existing user, as the controllers pass it (tenantId and createdBy  *)
(* of the caller); every other argument is free.                            *)
(* ------------------------------------------------------------------------ *)
CallIds == 1..MaxCalls

IdleCall ==
  [pc |-> "idle", id |-> NoId, tenantId |-> NoId, file |-> Undefined,
   metadata |-> Undefined, document |-> Null, url |-> Undefined,
   ocrText |-> Undefined, res |-> "none"]

IdleReq == [pc |-> "idle"]

(* the ids a caller may name: every id generated so far and one never used *)
SomeIds(table) == 1..(nextId[table] + 1)

Init ==
  /\ tenants = {}
  /\ users = {}
  /\ fees = {}
  /\ commissions = {}
  /\ templates = {}
  /\ nextId = [t \in Tables |-> 0]
  /\ documents = {}
  /\ versions = <<>>
  /\ blobs = {}
  /\ calls = [c \in CallIds |-> IdleCall]
  /\ hist = <<>>
  /\ issued = {}
  /\ req = IdleReq

CreateTenantCall ==
  \E name \in TenantNames :
    /\ nextId["tenant"] < MaxTenants
    /\ LET r == createTenant(name)
       IN /\ tenants' = r.tenants
    /\ nextId' = Bump("tenant")
    /\ UNCHANGED <<users, fees, commissions, templates, docVars, httpVars>>

CreateUserCall ==
  \E email \in Emails, password \in Passwords, tenantId \in Ids(tenants) :
    /\ nextId["user"] < MaxUsers
    /\ LET r == createUser([email |-> email, password |-> password,
                            tenantId |-> tenantId, role |-> Undefined])
       IN /\ users' = r.users
          /\ nextId' = IF r.res = "ok" THEN Bump("user") ELSE nextId
    /\ UNCHANGED <<tenants, fees, commissions, templates, docVars, httpVars>>

CreateFeeCall ==
  \E caller \in users, amount \in Amounts, caseId \in CaseIds :
    /\ nextId["fee"] < MaxFees
    /\ LET r == createFee([caseId |-> caseId, amount |-> amount,
                           tenantId |-> caller.tenantId, createdBy |-> caller.id])
       IN /\ fees' = r.fees
          /\ nextId' = IF r.res = "ok" THEN Bump("fee") ELSE nextId
    /\ UNCHANGED <<tenants, users, commissions, templates, docVars, httpVars>>

UpdateFeeStatusCall ==
  \E id \in SomeIds("fee"), tenantId \in Ids(tenants),
     status \in Statuses, paidDate \in Dates \cup {NoDate} :
    LET r == updateFeeStatus(id, tenantId, status, paidDate)
    IN /\ fees' = r.fees
       /\ UNCHANGED <<tenants, users, commissions, templates, nextId, docVars, httpVars>>

CreateCommissionCall ==
  \E caller \in users, feeId \in SomeIds("fee"), userId \in SomeIds("user"),
     percentage \in Percentages :
    /\ nextId["commission"] < MaxCommissions
    /\ LET r == createCommission([feeId |-> feeId, userId |-> userId,
                                  percentage |-> percentage,
                                  tenantId |-> caller.tenantId])
       IN /\ commissions' = r.commissions
          /\ nextId' = IF r.res = "ok" THEN Bump("commission") ELSE nextId
    /\ UNCHANGED <<tenants, users, fees, templates, docVars, httpVars>>

UpdateCommissionStatusCall ==
  \E id \in SomeIds("commission"), tenantId \in Ids(tenants),
     status \in Statuses, paidDate \in Dates \cup {NoDate} :
    LET r == updateCommissionStatus(id, tenantId, status, paidDate)
    IN /\ commissions' = r.commissions
       /\ UNCHANGED <<tenants, users, fees, templates, nextId, docVars, httpVars>>

CreateTemplateCall ==
  \E caller \in users, name \in TemplateNames, category \in Categories :
    /\ nextId["template"] < MaxTemplates
    /\ LET r == createTemplate([name |-> name, category |-> category,
                                tenantId |-> caller.tenantId,
                                createdBy |-> caller.id])
       IN /\ templates' = r.templates
          /\ nextId' = IF r.res = "ok" THEN Bump("template") ELSE nextId
    /\ UNCHANGED <<tenants, users, fees, commissions, docVars, httpVars>>

UpdateTemplateCall ==
  \E id \in SomeIds("template"), tenantId \in Ids(tenants),
     name \in TemplateNames \cup {Undefined}, category \in Categories \cup {Undefined} :
    LET r == updateTemplate(id, tenantId, [name |-> name, category |-> category])
    IN /\ templates' = r.templates
       /\ UNCHANGED <<tenants, users, fees, commissions, nextId, docVars, httpVars>>

DeleteTemplateCall ==
  \E id \in SomeIds("template"), tenantId \in Ids(tenants) :
    LET r == deleteTemplate(id, tenantId)
    IN /\ templates' = r.templates
       /\ UNCHANGED <<tenants, users, fees, commissions, nextId, docVars, httpVars>>

Next ==
  \/ CreateTenantCall
  \/ CreateUserCall
  \/ CreateFeeCall
  \/ UpdateFeeStatusCall
  \/ CreateCommissionCall
  \/ UpdateCommissionStatusCall
  \/ CreateTemplateCall
  \/ UpdateTemplateCall
  \/ DeleteTemplateCall

Spec == Init /\ [][Next]_vars

(* ------------------------------------------------------------------------ *)
(* SpecDoc: the document service.  createDocument runs to its end in one    *)
(* step; an updateDocument call stops at each of its awaits (the read, the  *)
(* upload, the version insert, the document update), other calls run in     *)
(* between, and the upload and each write may fail.  The store starts with  *)
(* two tenants and one user in each.                                        *)
(* ------------------------------------------------------------------------ *)
SeedTenants == {[id |-> 1, name |-> "Acme"], [id |-> 2, name |-> "Acme"]}

SeedUsers ==
  {[id |-> 1, email |-> "a@x.com", password |-> Hash("pw1"), role |-> "USER",
    tenantId |-> 1],
   [id |-> 2, email |-> "b@x.com", password |-> Hash("pw1"), role |-> "USER",
    tenantId |-> 2]}

InitDoc ==
  /\ tenants = SeedTenants
  /\ users = SeedUsers
  /\ fees = {}
  /\ commissions = {}
  /\ templates = {}
  /\ nextId = [t \in Tables |-> IF t \in {"tenant", "user"} THEN 2 ELSE 0]
  /\ documents = {}
  /\ versions = <<>>
  /\ blobs = {}
  /\ calls = [c \in CallIds |-> IdleCall]
  /\ hist = <<>>
  /\ issued = {}
  /\ req = IdleReq

InProgress(call) == call.pc \in {"found", "uploaded", "inserted"}

(* the bookkeeping of the calls made on a document: how many updates ran to
   their end, and whether every one so far ran alone and succeeded *)
NewHist == [updates |-> 0, alone |-> TRUE]

(* the same bookkeeping for a document just created, with the name, MIME
   type, size and tenant its creator supplied *)
HistOf(data) ==
  NewHist @@ [supplied |-> [name |-> data.name, mimeType |-> data.mimeType,
                            size |-> data.size, tenantId |-> data.tenantId]]

Spoil(id) == [hist EXCEPT ![id].alone = FALSE]

(* a call that threw: what it was asked and the error it reports *)
Fail(c, why) ==
  [calls EXCEPT ![c] = [IdleCall EXCEPT !.pc = "failed", !.res = why,
                                        !.id = calls[c].id,
                                        !.tenantId = calls[c].tenantId]]

(* DocumentService.createDocument(file, data, metadata) *)
CreateDocumentCall ==
  \E caller \in users, name \in DocNames, mimeType \in MimeTypes, size \in Sizes,
     file \in Files, metadata \in Metadatas,
     outcome \in {"ok", "uploadFails", "createFails"} :
    /\ nextId["document"] < MaxDocs
    /\ LET id == NewId("document")
           filename == Filename(Uuid("create", id), name)
           data == [name |-> name, mimeType |-> mimeType, size |-> size,
                    caseId |-> Undefined, tenantId |-> caller.tenantId,
                    createdBy |-> caller.id]
           row == DocumentRow(id, data, CdnUrl(filename),
                              OcrText(file, mimeType), metadata)
       IN /\ blobs' = IF outcome = "uploadFails" THEN blobs
                      ELSE blobs \cup {StoredObject(file, filename, mimeType)}
          /\ documents' = IF outcome = "ok" THEN documents \cup {row} ELSE documents
          /\ hist' = IF outcome = "ok" THEN (id :> HistOf(data)) @@ hist ELSE hist
          /\ nextId' = IF outcome = "uploadFails" THEN nextId ELSE Bump("document")
    /\ UNCHANGED <<tenants, users, fees, commissions, templates, versions, calls,
                   httpVars>>

(* updateDocument, to its first await: prisma.document.findFirst *)
UpdateDocumentFind(c) ==
  \E id \in SomeIds("document"), tenantId \in Ids(tenants), file \in Files,
     metadata \in Metadatas \cup {Undefined} :
    /\ calls[c].pc = "idle"
    /\ \A b \in CallIds : b < c => calls[b].pc # "idle"
    /\ LET document == FindDocument(id, tenantId)
           call == [calls[c] EXCEPT !.id = id, !.tenantId = tenantId,
                                    !.file = file, !.metadata = metadata]
       IN IF document = Null
            THEN /\ calls' = [calls EXCEPT ![c] =
                               [IdleCall EXCEPT !.pc = "failed",
                                                !.res = "Document not found",
                                                !.id = id, !.tenantId = tenantId]]
                 /\ hist' = hist
          ELSE /\ calls' = [calls EXCEPT ![c] =
                             [call EXCEPT !.pc = "found", !.document = document]]
               /\ hist' = IF \E b \in CallIds : InProgress(calls[b]) /\ calls[b].id = id
                            THEN Spoil(id) ELSE hist
    /\ UNCHANGED <<tenants, users, fees, commissions, templates, documents,
                   versions, blobs, nextId, httpVars>>

(* faulty variant of BlobsAfterThrow: the object the call uploaded is deleted
   again *)
BlobsRolledBack(objects, url) == {o \in objects : CdnUrl(o.key) # url}

(* updateDocument has no catch and no compensating delete: what the object
   store holds after a statement following the upload has thrown *)
BlobsAfterThrow(objects, url) == objects

(* uploadToSpaces(file, filename, document.mimeType), then the OCR check on
   the stored MIME type *)
UpdateDocumentUpload(c) ==
  \E ok \in BOOLEAN :
    /\ calls[c].pc = "found"
    /\ LET call == calls[c]
           filename == Filename(Uuid("update", c), call.document.name)
       IN IF ok
            THEN /\ blobs' = blobs \cup
                       {StoredObject(call.file, filename, call.document.mimeType)}
                 /\ calls' = [calls EXCEPT
                      ![c].pc = "uploaded",
                      ![c].url = CdnUrl(filename),
                      ![c].ocrText = OcrText(call.file, call.document.mimeType)]
                 /\ hist' = hist
          ELSE /\ blobs' = blobs
               /\ calls' = Fail(c, "upload failed")
               /\ hist' = Spoil(call.id)
    /\ UNCHANGED <<tenants, users, fees, commissions, templates, documents,
                   versions, nextId, httpVars>>

(* prisma.documentVersion.create *)
UpdateDocumentInsertVersion(c) ==
  \E ok \in BOOLEAN :
    /\ calls[c].pc = "uploaded"
    /\ LET call == calls[c]
       IN IF ok
            THEN /\ versions' = InsertVersion(versions,
                       VersionRow(call.document, call.url, call.ocrText, call.metadata))
                 /\ calls' = [calls EXCEPT ![c].pc = "inserted"]
                 /\ hist' = hist
                 /\ blobs' = blobs
          ELSE /\ versions' = versions
               /\ calls' = Fail(c, "documentVersion.create failed")
               /\ hist' = Spoil(call.id)
               /\ blobs' = BlobsAfterThrow(blobs, call.url)
    /\ UNCHANGED <<tenants, users, fees, commissions, templates, documents,
                   nextId, httpVars>>

(* prisma.document.update({ where: { id }, ... }) *)
UpdateDocumentWrite(c) ==
  \E ok \in BOOLEAN :
    /\ calls[c].pc = "inserted"
    /\ LET call == calls[c]
           current == Row(documents, call.id)
       IN IF ok
            THEN /\ documents' = (documents \ {current}) \cup
                       {DocumentUpdate(current, call.document, call.url,
                                       call.ocrText, call.metadata)}
                 /\ calls' = [calls EXCEPT ![c].pc = "done", ![c].res = "ok"]
                 /\ hist' = [hist EXCEPT ![call.id].updates = @ + 1]
                 /\ blobs' = blobs
          ELSE /\ documents' = documents
               /\ calls' = Fail(c, "document.update failed")
               /\ hist' = Spoil(call.id)
               /\ blobs' = BlobsAfterThrow(blobs, call.url)
    /\ UNCHANGED <<tenants, users, fees, commissions, templates, versions,
                   nextId, httpVars>>

NextDoc ==
  \/ CreateDocumentCall
  \/ \E c \in CallIds : UpdateDocumentFind(c)
  \/ \E c \in CallIds : UpdateDocumentUpload(c)
  \/ \E c \in CallIds : UpdateDocumentInsertVersion(c)
  \/ \E c \in CallIds : UpdateDocumentWrite(c)

SpecDoc == InitDoc /\ [][NextDoc]_vars


(* ------------------------------------------------------------------------ *)
(* SpecHttp: one HTTP request at a time travels through the middleware its   *)
(* route registers and then into the controller.  The store starts empty;    *)
(* tenants and users come into being through the routes themselves.  Next to *)
(* the requests, UserService.deleteUser is called directly (an operator      *)
(* removing an account), also between the middleware and the controller of   *)
(* a request.                                                                *)
(* ------------------------------------------------------------------------ *)
UserRoutes ==
  {"POST /api/users/register", "POST /api/users/login",
   "GET /api/users/profile", "PUT /api/users/profile", "GET /api/users",
   "PATCH /api/users/role", "DELETE /api/users/:userId", "GET /api/users/me"}

TenantRoutes == {"POST /api/tenants", "GET /api/tenants"}

TemplateRoutes ==
  {"POST /api/templates", "GET /api/templates", "GET /api/templates/:id",
   "PUT /api/templates/:id", "DELETE /api/templates/:id"}

FeeRoutes ==
  {"POST /api/fees", "GET /api/fees", "GET /api/fees/:id",
   "PATCH /api/fees/:id/status", "POST /api/fees/:feeId/commissions",
   "PATCH /api/fees/commissions/:id/status",
   "GET /api/fees/commissions/user/:userId", "GET /api/fees/:feeId/commissions"}

DocumentRoutes ==
  {"POST /api/documents", "GET /api/documents", "GET /api/documents/search",
   "GET /api/documents/:id", "PUT /api/documents/:id",
   "GET /api/documents/:id/versions/:version"}

Routes == UserRoutes \cup TenantRoutes \cup TemplateRoutes \cup FeeRoutes \cup DocumentRoutes

AdminRoutes == {"GET /api/users", "PATCH /api/users/role", "DELETE /api/users/:userId"}

(* the middleware a route registers in front of its controller *)
Middleware(route) ==
  IF route \in {"POST /api/users/register", "POST /api/users/login"} THEN <<>>
  ELSE IF route \in AdminRoutes THEN <<"authenticateToken", "requireRole">>
  ELSE IF route \in UserRoutes THEN <<"authenticateToken">>
  ELSE IF route \in TenantRoutes THEN <<>>
  ELSE <<"authenticateToken">>

(* requireRole(['ADMIN']) is the only role list a route passes *)
AdminOnly == {"ADMIN"}

(* what a request carries in its Authorization header: nothing, a string that
   is no JWT, a JWT signed with another key, a JWT of this server past its
   expiry, or a JWT of this server still valid.  The payload of a token that
   does not verify is never read. *)
NoToken == [kind |-> "none", claims |-> Null]

(* jwt.verify(token, secret): the payload, or Null where it throws *)
Verify(token) == IF token.kind = "valid" THEN token.claims ELSE Null

(* the tokens a client can send *)
Tokens ==
  {NoToken, [kind |-> "malformed", claims |-> Null]}
  \cup {[kind |-> "forged", claims |-> Null], [kind |-> "expired", claims |-> Null]}
  \cup {[kind |-> "valid", claims |-> p] : p \in issued}

(* the parts of a request the controllers read: a path parameter or body id,
   the body's email, password, role and tenantId, and whether a file (or, on
   the search route, a query) came with it; `param` is the path parameter of
   a route whose body carries an id of its own *)
NoBody ==
  [id |-> NoId, email |-> Undefined, password |-> Undefined, role |-> Undefined,
   tenantId |-> NoId, file |-> FALSE, param |-> NoId]

Bodies(route) ==
  IF route = "POST /api/users/register"
    THEN {[NoBody EXCEPT !.email = e, !.password = p, !.role = r, !.tenantId = t] :
            e \in Emails, p \in Passwords, r \in {Undefined, "ADMIN"},
            t \in Ids(tenants)}
  ELSE IF route = "POST /api/users/login"
    THEN {[NoBody EXCEPT !.email = e, !.password = p] :
            e \in Emails, p \in Passwords \cup {"wrong"}}
  ELSE IF route = "PUT /api/users/profile"
    THEN {[NoBody EXCEPT !.role = "ADMIN"]}
         \cup {[NoBody EXCEPT !.tenantId = t] : t \in Ids(tenants)}
  ELSE IF route = "PATCH /api/users/role"
    THEN {[NoBody EXCEPT !.id = i, !.role = "ADMIN"] : i \in SomeIds("user")}
  ELSE IF route = "DELETE /api/users/:userId"
    THEN {[NoBody EXCEPT !.id = i] : i \in SomeIds("user")}
  ELSE IF route \in {"POST /api/documents", "PUT /api/documents/:id",
                     "GET /api/documents/search"}
    THEN {[NoBody EXCEPT !.id = 1, !.file = f] : f \in BOOLEAN}
  ELSE IF route = "POST /api/fees/:feeId/commissions"
    THEN {[NoBody EXCEPT !.id = b, !.param = f] :
            b \in {NoId} \cup SomeIds("fee"), f \in SomeIds("fee")}
  ELSE {[NoBody EXCEPT !.id = 1]}

(* req.user?.<name>: undefined when req.user is unset or has no such field *)
Field(user, name) ==
  IF user = Null THEN NoId
  ELSE IF name \in DOMAIN user THEN user[name] ELSE NoId

(* the tables and the set of signed payloads, as one value *)
Store ==
  [tenants |-> tenants, users |-> users, fees |-> fees,
   commissions |-> commissions, templates |-> templates,
   documents |-> documents, versions |-> versions, blobs |-> blobs,
   nextId |-> nextId, issued |-> issued]

(* what a JSON response carries: the user objects anywhere in it, the token
   and the error or message text *)
Json(people, token, error) == [users |-> people, token |-> token, error |-> error]

NoJson == Json({}, Null, "")

ErrorJson(error) == Json({}, Null, error)

(* the message the error handler sends for anything that is not an AppError *)
InternalError == "Internal server error"

(* a response: its status, the database operations made for it, the store;
   the body is NoJson until Send gives it one *)
Reply(status, ops, store) ==
  [status |-> status, ops |-> ops, store |-> store, sent |-> NoJson]

(* res.status(...).json(json) *)
Send(reply, json) == [reply EXCEPT !.sent = json]

(* the status the error handler gives an error passed to next(err): the
   status of an AppError, 500 for anything else *)
ErrorStatus(res) ==
  CASE res = "400" -> 400
    [] res = "401" -> 401
    [] res = "404" -> 404
    [] OTHER -> 500

(* faulty variant of TenantScopeGuard: the payload is trusted as it is *)
TrustPayload(decoded) == decoded

(* authenticateToken, the lookup: the User row with the id and the tenant the
   payload names *)
TenantScopeGuard(decoded) ==
  FindFirst({u \in users : u.id = decoded.userId /\ u.tenantId = decoded.tenantId})

(* authenticateToken(req, res, next): "next" with req.user, or the response *)
authenticateToken(token) ==
  IF token.kind \in {"none"}
    THEN [next |-> FALSE, status |-> 401, ops |-> <<>>, user |-> Null,
          error |-> "No token provided"]
  ELSE LET decoded == Verify(token)
       IN IF decoded = Null
            THEN [next |-> FALSE, status |-> 401, ops |-> <<>>, user |-> Null,
                  error |-> "Invalid token"]
          ELSE IF TenantScopeGuard(decoded) = Null
            THEN [next |-> FALSE, status |-> 401, ops |-> <<"user.findFirst">>,
                  user |-> Null, error |-> "Invalid token"]
          ELSE [next |-> TRUE, status |-> 0, ops |-> <<"user.findFirst">>,
                user |-> decoded, error |-> ""]

(* faulty variant of requireRole: any authenticated identity passes *)
requireAuthenticated(roles, user) ==
  IF user = Null THEN [next |-> FALSE, status |-> 401, error |-> "User not authenticated"]
  ELSE [next |-> TRUE, status |-> 0, error |-> ""]

(* requireRole(roles)(req, res, next) *)
requireRole(roles, user) ==
  IF user = Null THEN [next |-> FALSE, status |-> 401, error |-> "User not authenticated"]
  ELSE IF user.role \notin roles
    THEN [next |-> FALSE, status |-> 403, error |-> "Insufficient permissions"]
  ELSE [next |-> TRUE, status |-> 0, error |-> ""]

(* ---- userController and the inline handler of GET /api/users/me *)
register(body) ==
  LET r == createUser(body)
  IN IF r.res = "ok"
       THEN Send(Reply(201, <<"user.findUnique", "user.create">>,
                       [Store EXCEPT !.users = r.users, !.nextId = Bump("user"),
                                     !.issued = issued \cup {r.token}]),
                 Json({r.user}, r.token, ""))
     ELSE IF r.res = "400"
       THEN Send(Reply(400, <<"user.findUnique">>, Store),
                 ErrorJson("User already exists"))
     ELSE Send(Reply(ErrorStatus(r.res), <<"user.findUnique", "user.create">>, Store),
               ErrorJson(InternalError))

loginHandler(body) ==
  LET r == login(body)
  IN IF r.res = "ok"
       THEN Send(Reply(200, <<"user.findUnique">>,
                       [Store EXCEPT !.issued = issued \cup {r.token}]),
                 Json({r.user}, r.token, ""))
     ELSE Send(Reply(ErrorStatus(r.res), <<"user.findUnique">>, Store),
               ErrorJson(r.message))

getProfile(user) ==
  LET userId == Field(user, "userId")
  IN IF userId = NoId
       THEN Send(Reply(401, <<>>, Store), ErrorJson("User not authenticated"))
     ELSE LET r == getUserProfile(userId)
          IN IF r.res = "ok"
               THEN Send(Reply(200, <<"user.findUnique">>, Store),
                         Json({r.user}, Null, ""))
             ELSE Send(Reply(ErrorStatus(r.res), <<"user.findUnique">>, Store),
                       ErrorJson("User not found"))

updateProfile(user, body) ==
  LET userId == Field(user, "userId")
  IN IF userId = NoId
       THEN Send(Reply(401, <<>>, Store), ErrorJson("User not authenticated"))
     ELSE LET r == updateUserProfile(userId, body)
          IN IF r.res = "ok"
               THEN Send(Reply(200, <<"user.update">>, [Store EXCEPT !.users = r.users]),
                         Json({r.user}, Null, ""))
             ELSE Send(Reply(ErrorStatus(r.res), <<"user.update">>, Store),
                       ErrorJson(InternalError))

listUsersHandler(user) ==
  LET tenantId == Field(user, "tenantId")
  IN IF tenantId = NoId
       THEN Send(Reply(400, <<>>, Store), ErrorJson("Tenant ID is required"))
     ELSE Send(Reply(200, <<"user.findMany">>, Store),
               Json(listUsers(tenantId), Null, ""))

changeUserRoleHandler(body) ==
  LET r == changeUserRole(body.id, body.role)
  IN IF r.res = "ok"
       THEN Send(Reply(200, <<"user.update">>, [Store EXCEPT !.users = r.users]),
                 Json({r.user}, Null, ""))
     ELSE Send(Reply(ErrorStatus(r.res), <<"user.update">>, Store),
               ErrorJson(InternalError))

deleteUserHandler(body) ==
  LET r == deleteUser(body.id)
  IN Reply(IF r.res = "ok" THEN 204 ELSE ErrorStatus(r.res),
           <<"user.delete">>, [Store EXCEPT !.users = r.users])

(* GET /api/users/me: findUnique with a select that leaves the password out *)
me(user) ==
  IF user = Null THEN Send(Reply(401, <<>>, Store), ErrorJson("Unauthorized"))
  ELSE LET found == FindFirst({u \in users : u.id = user.userId})
       IN IF found = Null
            THEN Send(Reply(404, <<"user.findUnique">>, Store),
                      ErrorJson("User not found"))
          ELSE Send(Reply(200, <<"user.findUnique">>, Store),
                    Json({[id |-> found.id, email |-> found.email,
                           role |-> found.role, tenantId |-> found.tenantId]},
                         Null, ""))

(* ---- tenant routes *)
postTenant(body) ==
  Reply(200, <<"tenant.create">>,
        [Store EXCEPT !.tenants = createTenant("Acme").tenants,
                      !.nextId = Bump("tenant")])

getTenants == Reply(200, <<"tenant.findMany">>, Store)

(* ---- templateController *)
createTemplateHandler(user, body) ==
  LET tenantId == Field(user, "tenantId")
      createdBy == Field(user, "id")
  IN IF tenantId = NoId \/ createdBy = NoId THEN Reply(401, <<>>, Store)
     ELSE LET r == createTemplate([name |-> "tplA", category |-> "letters",
                                   tenantId |-> tenantId, createdBy |-> createdBy])
          IN IF r.res = "ok"
               THEN Reply(201, <<"template.create">>,
                          [Store EXCEPT !.templates = r.templates,
                                        !.nextId = Bump("template")])
             ELSE Reply(500, <<"template.create">>, Store)

listTemplatesHandler(user) ==
  IF Field(user, "tenantId") = NoId THEN Reply(401, <<>>, Store)
  ELSE Reply(200, <<"template.findMany">>, Store)

getTemplateHandler(user, body) ==
  LET tenantId == Field(user, "tenantId")
  IN IF tenantId = NoId THEN Reply(401, <<>>, Store)
     ELSE Reply(IF getTemplate(body.id, tenantId) = Null THEN 404 ELSE 200,
                <<"template.findFirst">>, Store)

updateTemplateHandler(user, body) ==
  LET tenantId == Field(user, "tenantId")
  IN IF tenantId = NoId THEN Reply(401, <<>>, Store)
     ELSE LET r == updateTemplate(body.id, tenantId,
                                  [name |-> "tplB", category |-> Undefined])
          IN Reply(IF r.res = "ok" THEN 200 ELSE 500, <<"template.update">>,
                   [Store EXCEPT !.templates = r.templates])

deleteTemplateHandler(user, body) ==
  LET tenantId == Field(user, "tenantId")
  IN IF tenantId = NoId THEN Reply(401, <<>>, Store)
     ELSE LET r == deleteTemplate(body.id, tenantId)
          IN Reply(IF r.res = "ok" THEN 204 ELSE 500, <<"template.delete">>,
                   [Store EXCEPT !.templates = r.templates])

(* ---- feeController *)
createFeeHandler(user, body) ==
  LET tenantId == Field(user, "tenantId")
      createdBy == Field(user, "id")
  IN IF tenantId = NoId \/ createdBy = NoId THEN Reply(401, <<>>, Store)
     ELSE LET r == createFee([caseId |-> "case1", amount |-> 1000,
                              tenantId |-> tenantId, createdBy |-> createdBy])
          IN IF r.res = "ok"
               THEN Reply(201, <<"fee.create">>,
                          [Store EXCEPT !.fees = r.fees, !.nextId = Bump("fee")])
             ELSE Reply(500, <<"fee.create">>, Store)

listFeesHandler(user) ==
  IF Field(user, "tenantId") = NoId THEN Reply(401, <<>>, Store)
  ELSE Reply(200, <<"fee.findMany">>, Store)

getFeeHandler(user, body) ==
  LET tenantId == Field(user, "tenantId")
  IN IF tenantId = NoId THEN Reply(401, <<>>, Store)
     ELSE Reply(IF getFee(body.id, tenantId) = Null THEN 404 ELSE 200,
                <<"fee.findFirst">>, Store)

updateFeeStatusHandler(user, body) ==
  LET tenantId == Field(user, "tenantId")
  IN IF tenantId = NoId THEN Reply(401, <<>>, Store)
     ELSE LET r == updateFeeStatus(body.id, tenantId, "PAID", NoDate)
          IN Reply(IF r.res = "ok" THEN 200 ELSE 500, <<"fee.update">>,
                   [Store EXCEPT !.fees = r.fees])

(* const { feeId, userId, percentage } = req.body: feeId is read from the
   body (body.id), req.params.feeId (body.param) is never read; the body's
   userId is the caller's and its percentage is 15 *)
createCommissionHandler(user, body) ==
  LET tenantId == Field(user, "tenantId")
  IN IF tenantId = NoId THEN Reply(401, <<>>, Store)
     ELSE LET r == createCommission([feeId |-> body.id, userId |-> user.userId,
                                     percentage |-> 15, tenantId |-> tenantId])
          IN IF r.res = "Fee not found" THEN Reply(500, <<"fee.findUnique">>, Store)
             ELSE IF r.res = "ok"
               THEN Reply(201, <<"fee.findUnique", "commission.create">>,
                          [Store EXCEPT !.commissions = r.commissions,
                                        !.nextId = Bump("commission")])
             ELSE Reply(500, <<"fee.findUnique", "commission.create">>, Store)

updateCommissionStatusHandler(user, body) ==
  LET tenantId == Field(user, "tenantId")
  IN IF tenantId = NoId THEN Reply(401, <<>>, Store)
     ELSE LET r == updateCommissionStatus(body.id, tenantId, "PAID", NoDate)
          IN Reply(IF r.res = "ok" THEN 200 ELSE 500, <<"commission.update">>,
                   [Store EXCEPT !.commissions = r.commissions])

getCommissionsHandler(user) ==
  IF Field(user, "tenantId") = NoId THEN Reply(401, <<>>, Store)
  ELSE Reply(200, <<"commission.findMany">>, Store)

(* ---- documentController *)
createDocumentHandler(user, body) ==
  IF ~body.file THEN Reply(400, <<>>, Store)
  ELSE LET tenantId == Field(user, "tenantId")
           createdBy == Field(user, "id")
       IN IF tenantId = NoId \/ createdBy = NoId THEN Reply(401, <<>>, Store)
          ELSE IF createdBy \in Ids(users)
            THEN LET id == NewId("document")
                     filename == Filename(Uuid("create", id), "Policy_ABC")
                     data == [name |-> "Policy_ABC", mimeType |-> "application/pdf",
                              size |-> 1024, caseId |-> Undefined,
                              tenantId |-> tenantId, createdBy |-> createdBy]
                 IN Reply(201, <<"document.create">>,
                      [Store EXCEPT
                         !.blobs = blobs \cup
                            {StoredObject("fileA", filename, "application/pdf")},
                         !.documents = documents \cup
                            {DocumentRow(id, data, CdnUrl(filename),
                                         OcrText("fileA", "application/pdf"),
                                         Undefined)},
                         !.nextId = Bump("document")])
          ELSE Reply(500, <<"document.create">>, Store)

listDocumentsHandler(user) ==
  IF Field(user, "tenantId") = NoId THEN Reply(401, <<>>, Store)
  ELSE Reply(200, <<"document.findMany">>, Store)

searchDocumentsHandler(user, body) ==
  IF Field(user, "tenantId") = NoId THEN Reply(401, <<>>, Store)
  ELSE IF ~body.file THEN Reply(400, <<>>, Store)
  ELSE Reply(200, <<"document.findMany">>, Store)

getDocumentHandler(user, body) ==
  LET tenantId == Field(user, "tenantId")
  IN IF tenantId = NoId THEN Reply(401, <<>>, Store)
     ELSE Reply(IF getDocument(body.id, tenantId) = Null THEN 404 ELSE 200,
                <<"document.findFirst">>, Store)

updateDocumentHandler(user, body) ==
  IF ~body.file THEN Reply(400, <<>>, Store)
  ELSE LET tenantId == Field(user, "tenantId")
       IN IF tenantId = NoId THEN Reply(401, <<>>, Store)
          ELSE LET r == updateDocumentRun("http", body.id, tenantId, "fileA", Undefined)
               IN IF r.res = "ok"
                    THEN Reply(200, <<"document.findFirst", "documentVersion.create",
                                      "document.update">>,
                               [Store EXCEPT !.documents = r.documents,
                                             !.versions = r.versions,
                                             !.blobs = r.blobs])
                  ELSE Reply(500, <<"document.findFirst">>, Store)

getDocumentVersionHandler(user, body) ==
  LET tenantId == Field(user, "tenantId")
  IN IF tenantId = NoId THEN Reply(401, <<>>, Store)
     ELSE Reply(IF getDocumentVersion(body.id, 1, tenantId) = Null THEN 404 ELSE 200,
                <<"documentVersion.findFirst">>, Store)

(* the controller a route ends in *)
Controller(route, user, body) ==
  CASE route = "POST /api/users/register" -> register(body)
    [] route = "POST /api/users/login" -> loginHandler(body)
    [] route = "GET /api/users/profile" -> getProfile(user)
    [] route = "PUT /api/users/profile" -> updateProfile(user, body)
    [] route = "GET /api/users" -> listUsersHandler(user)
    [] route = "PATCH /api/users/role" -> changeUserRoleHandler(body)
    [] route = "DELETE /api/users/:userId" -> deleteUserHandler(body)
    [] route = "GET /api/users/me" -> me(user)
    [] route = "POST /api/tenants" -> postTenant(body)
    [] route = "GET /api/tenants" -> getTenants
    [] route = "POST /api/templates" -> createTemplateHandler(user, body)
    [] route = "GET /api/templates" -> listTemplatesHandler(user)
    [] route = "GET /api/templates/:id" -> getTemplateHandler(user, body)
    [] route = "PUT /api/templates/:id" -> updateTemplateHandler(user, body)
    [] route = "DELETE /api/templates/:id" -> deleteTemplateHandler(user, body)
    [] route = "POST /api/fees" -> createFeeHandler(user, body)
    [] route = "GET /api/fees" -> listFeesHandler(user)
    [] route = "GET /api/fees/:id" -> getFeeHandler(user, body)
    [] route = "PATCH /api/fees/:id/status" -> updateFeeStatusHandler(user, body)
    [] route = "POST /api/fees/:feeId/commissions" -> createCommissionHandler(user, body)
    [] route = "PATCH /api/fees/commissions/:id/status" ->
         updateCommissionStatusHandler(user, body)
    [] route = "GET /api/fees/commissions/user/:userId" -> getCommissionsHandler(user)
    [] route = "GET /api/fees/:feeId/commissions" -> getCommissionsHandler(user)
    [] route = "POST /api/documents" -> createDocumentHandler(user, body)
    [] route = "GET /api/documents" -> listDocumentsHandler(user)
    [] route = "GET /api/documents/search" -> searchDocumentsHandler(user, body)
    [] route = "GET /api/documents/:id" -> getDocumentHandler(user, body)
    [] route = "PUT /api/documents/:id" -> updateDocumentHandler(user, body)
    [] route = "GET /api/documents/:id/versions/:version" ->
         getDocumentVersionHandler(user, body)

InitHttp == Init

(* the table a route inserts into, and the number of rows it may still get *)
Creates(route) ==
  CASE route = "POST /api/tenants" -> "tenant"
    [] route = "POST /api/users/register" -> "user"
    [] route = "POST /api/templates" -> "template"
    [] route = "POST /api/fees" -> "fee"
    [] route = "POST /api/fees/:feeId/commissions" -> "commission"
    [] route = "POST /api/documents" -> "document"
    [] OTHER -> "none"

Limit(table) ==
  CASE table = "tenant" -> MaxTenants
    [] table = "user" -> MaxUsers
    [] table = "template" -> MaxTemplates
    [] table = "fee" -> MaxFees
    [] table = "commission" -> MaxCommissions
    [] table = "document" -> MaxDocs

WithinBounds(route) ==
  Creates(route) # "none" => nextId[Creates(route)] < Limit(Creates(route))

(* a request arrives; the request record tells where it is (at middleware
   number `at`, in the controller, answered), the identity the middleware
   attached, the status sent, the database operations made for it, and
   whether its controller ran *)
ArriveOn(routes) ==
  \E route \in routes, token \in Tokens :
    \E body \in Bodies(route) :
      /\ req.pc = "idle"
      /\ WithinBounds(route)
      /\ req' = [pc |-> IF Middleware(route) = <<>> THEN "controller" ELSE "middleware",
                 at |-> 1, route |-> route, token |-> token, body |-> body,
                 user |-> Null, status |-> 0, ops |-> <<>>, ran |-> FALSE,
                 sent |-> NoJson]
      /\ UNCHANGED <<tenants, users, fees, commissions, templates, nextId,
                     docVars, issued>>

Arrive == ArriveOn(Routes)

(* the request passes control to what follows its middleware number `at` *)
Forward(r) ==
  IF r.at < Len(Middleware(r.route)) THEN [r EXCEPT !.at = @ + 1]
  ELSE [r EXCEPT !.pc = "controller"]

AuthenticateTokenStep ==
  /\ req.pc = "middleware"
  /\ Middleware(req.route)[req.at] = "authenticateToken"
  /\ LET a == authenticateToken(req.token)
         seen == [req EXCEPT !.ops = @ \o a.ops]
     IN req' = IF a.next THEN Forward([seen EXCEPT !.user = a.user])
               ELSE [seen EXCEPT !.pc = "done", !.status = a.status,
                                 !.sent = ErrorJson(a.error)]
  /\ UNCHANGED <<tenants, users, fees, commissions, templates, nextId,
                 docVars, issued>>

RequireRoleStep ==
  /\ req.pc = "middleware"
  /\ Middleware(req.route)[req.at] = "requireRole"
  /\ LET a == requireRole(AdminOnly, req.user)
     IN req' = IF a.next THEN Forward(req)
               ELSE [req EXCEPT !.pc = "done", !.status = a.status,
                                !.sent = ErrorJson(a.error)]
  /\ UNCHANGED <<tenants, users, fees, commissions, templates, nextId,
                 docVars, issued>>

ControllerStep ==
  /\ req.pc = "controller"
  /\ LET r == Controller(req.route, req.user, req.body)
     IN /\ req' = [req EXCEPT !.pc = "done", !.status = r.status,
                              !.ops = @ \o r.ops, !.ran = TRUE, !.sent = r.sent]
        /\ tenants' = r.store.tenants
        /\ users' = r.store.users
        /\ fees' = r.store.fees
        /\ commissions' = r.store.commissions
        /\ templates' = r.store.templates
        /\ documents' = r.store.documents
        /\ versions' = r.store.versions
        /\ blobs' = r.store.blobs
        /\ nextId' = r.store.nextId
        /\ issued' = r.store.issued
  /\ UNCHANGED <<calls, hist>>

(* the response is on its way and the server is free for the next request *)
Close ==
  /\ req.pc = "done"
  /\ req' = IdleReq
  /\ UNCHANGED <<tenants, users, fees, commissions, templates, nextId,
                 docVars, issued>>

(* UserService.deleteUser called for an existing account, outside any request *)
DeleteUserCall ==
  \E userId \in Ids(users) :
    /\ users' = deleteUser(userId).users
    /\ UNCHANGED <<tenants, fees, commissions, templates, nextId, docVars, httpVars>>

NextHttp ==
  \/ Arrive
  \/ AuthenticateTokenStep
  \/ RequireRoleStep
  \/ ControllerStep
  \/ Close
  \/ DeleteUserCall

SpecHttp == InitHttp /\ [][NextHttp]_vars

(* ------------------------------------------- commission requests on fees *)
(* The commission route served on a database that holds two tenants, a user
   of each who has logged in, and two fees of tenant 1 with different
   amounts. *)
SeedFees ==
  {[id |-> 1, caseId |-> "case1", amount |-> 1000, status |-> NoStatus,
    paidDate |-> NoDate, tenantId |-> 1, createdBy |-> 1],
   [id |-> 2, caseId |-> "case1", amount |-> 2000, status |-> NoStatus,
    paidDate |-> NoDate, tenantId |-> 1, createdBy |-> 1]}

InitCommission ==
  /\ tenants = SeedTenants
  /\ users = SeedUsers
  /\ fees = SeedFees
  /\ commissions = {}
  /\ templates = {}
  /\ nextId = [t \in Tables |-> IF t \in {"tenant", "user", "fee"} THEN 2 ELSE 0]
  /\ documents = {}
  /\ versions = <<>>
  /\ blobs = {}
  /\ calls = [c \in CallIds |-> IdleCall]
  /\ hist = <<>>
  /\ issued = {[userId |-> u.id, tenantId |-> u.tenantId] : u \in SeedUsers}
  /\ req = IdleReq

ArriveCommission == ArriveOn({"POST /api/fees/:feeId/commissions"})

NextCommission ==
  \/ ArriveCommission
  \/ AuthenticateTokenStep
  \/ ControllerStep
  \/ Close

SpecCommission == InitCommission /\ [][NextCommission]_vars

(* ------------------------------------------------ concurrent user requests *)
(* Requests on the user routes run as independent tasks that interleave at
   their awaits.  createUser awaits findUnique, bcrypt.hash and create in
   turn, so another request can run between its lookup and its insert;
   updateUserProfile is one update statement. *)
IdleUserCall ==
  [pc |-> "idle", op |-> "none", email |-> Undefined, password |-> Undefined,
   tenantId |-> NoId, found |-> FALSE, status |-> 0, created |-> FALSE]

InitUser ==
  /\ tenants = SeedTenants
  /\ users = {}
  /\ fees = {}
  /\ commissions = {}
  /\ templates = {}
  /\ nextId = [t \in Tables |-> IF t = "tenant" THEN 2 ELSE 0]
  /\ documents = {}
  /\ versions = <<>>
  /\ blobs = {}
  /\ calls = [c \in CallIds |-> IdleUserCall]
  /\ hist = <<>>
  /\ issued = {}
  /\ req = IdleReq

(* registrations that have looked the email up and not yet inserted *)
Hashing == {c \in CallIds : calls[c].pc = "hashing"}

(* POST /api/users/register, up to the first await of createUser: the lookup
   by email; a row found is answered with the AppError's 400 *)
RegisterFind(c) ==
  \E email \in Emails, password \in Passwords, tenantId \in Ids(tenants) :
    /\ calls[c].pc = "idle"
    /\ Cardinality(users) + Cardinality(Hashing) < MaxUsers
    /\ LET found == FindUserByEmail(email) # Null
           call == [IdleUserCall EXCEPT !.op = "register", !.email = email,
                                        !.password = password,
                                        !.tenantId = tenantId, !.found = found]
       IN calls' = [calls EXCEPT ![c] =
                      IF found THEN [call EXCEPT !.pc = "done",
                                                 !.status = ErrorStatus("400")]
                      ELSE [call EXCEPT !.pc = "hashing"]]
    /\ UNCHANGED <<tenants, users, fees, commissions, templates, nextId,
                   documents, versions, blobs, hist, httpVars>>

(* the rest of createUser and of the register handler: the insert, then 201
   with the user, or next(err) with what the insert threw *)
RegisterCreate(c) ==
  /\ calls[c].pc = "hashing"
  /\ LET r == UserCreate([email |-> calls[c].email, password |-> calls[c].password,
                          tenantId |-> calls[c].tenantId, role |-> Undefined])
     IN /\ users' = r.users
        /\ nextId' = IF r.res = "ok" THEN Bump("user") ELSE nextId
        /\ calls' = [calls EXCEPT ![c].pc = "done",
                                  ![c].created = (r.res = "ok"),
                                  ![c].status = IF r.res = "ok" THEN 201
                                                ELSE ErrorStatus(r.res)]
  /\ UNCHANGED <<tenants, fees, commissions, templates, documents, versions,
                 blobs, hist, httpVars>>

(* PUT /api/users/profile of a signed-in user: one update statement *)
UpdateProfileCall(c) ==
  \E userId \in Ids(users), email \in Emails \cup {Undefined} :
    /\ calls[c].pc = "idle"
    /\ LET r == updateUserProfile(userId, [email |-> email, role |-> Undefined,
                                           tenantId |-> NoId])
       IN /\ users' = r.users
          /\ calls' = [calls EXCEPT ![c] =
                         [IdleUserCall EXCEPT !.pc = "done", !.op = "updateProfile",
                                              !.email = email,
                                              !.status = IF r.res = "ok" THEN 200
                                                         ELSE ErrorStatus(r.res)]]
    /\ UNCHANGED <<tenants, fees, commissions, templates, nextId, documents,
                   versions, blobs, hist, httpVars>>

(* the response is sent and the task ends *)
Respond(c) ==
  /\ calls[c].pc = "done"
  /\ calls' = [calls EXCEPT ![c] = IdleUserCall]
  /\ UNCHANGED <<tenants, users, fees, commissions, templates, nextId,
                 documents, versions, blobs, hist, httpVars>>

NextUser ==
  \E c \in CallIds :
    \/ RegisterFind(c)
    \/ RegisterCreate(c)
    \/ UpdateProfileCall(c)
    \/ Respond(c)

SpecUser == InitUser /\ [][NextUser]_vars

(* ------------------------------------------------------------- listings *)
(* Fees, templates and documents created one after another by the users of
   two tenants, for the list operations to read. *)
MaxListed == 2

ListCaseIds == {"case1", "case2"}

ListCategories == {"letters", "forms"}

(* FeeService.createFee for one of the cases *)
CreateFeeForCase ==
  \E caller \in users, caseId \in ListCaseIds :
    /\ nextId["fee"] < MaxListed
    /\ LET r == createFee([caseId |-> caseId, amount |-> 1000,
                           tenantId |-> caller.tenantId, createdBy |-> caller.id])
       IN /\ fees' = r.fees
          /\ nextId' = IF r.res = "ok" THEN Bump("fee") ELSE nextId
    /\ UNCHANGED <<tenants, users, commissions, templates, docVars, httpVars>>

(* TemplateService.createTemplate in one of the categories *)
CreateTemplateInCategory ==
  \E caller \in users, category \in ListCategories :
    /\ nextId["template"] < MaxListed
    /\ LET r == createTemplate([name |-> "tplA", category |-> category,
                                tenantId |-> caller.tenantId,
                                createdBy |-> caller.id])
       IN /\ templates' = r.templates
          /\ nextId' = IF r.res = "ok" THEN Bump("template") ELSE nextId
    /\ UNCHANGED <<tenants, users, fees, commissions, docVars, httpVars>>

(* DocumentService.createDocument(file, data, metadata) in which the upload
   and the insert both succeed *)
CreateDocumentOf(names, mimeTypes, caseIds, metadatas) ==
  \E caller \in users, name \in names, mimeType \in mimeTypes,
     caseId \in caseIds, metadata \in metadatas :
    /\ nextId["document"] < MaxListed
    /\ LET id == NewId("document")
           filename == Filename(Uuid("create", id), name)
           data == [name |-> name, mimeType |-> mimeType, size |-> 1024,
                    caseId |-> caseId, tenantId |-> caller.tenantId,
                    createdBy |-> caller.id]
       IN /\ blobs' = blobs \cup {StoredObject("fileA", filename, mimeType)}
          /\ documents' = documents \cup
               {DocumentRow(id, data, CdnUrl(filename),
                            OcrText("fileA", mimeType), metadata)}
          /\ hist' = (id :> HistOf(data)) @@ hist
          /\ nextId' = Bump("document")
    /\ UNCHANGED <<tenants, users, fees, commissions, templates, versions, calls,
                   httpVars>>

CreateDocumentForCase ==
  CreateDocumentOf({"Policy_ABC"}, {"text/plain"}, ListCaseIds, {Undefined})

NextList ==
  \/ CreateFeeForCase
  \/ CreateTemplateInCategory
  \/ CreateDocumentForCase

SpecList == InitDoc /\ [][NextList]_vars

(* ---------------------------------------------------------------- search *)
(* Documents of different names, with and without OCR text and metadata,
   for searchDocuments to read. *)
SearchNames == {"Policy_ABC", "invoice"}

CreateDocumentNamed ==
  CreateDocumentOf(SearchNames, MimeTypes, {Undefined}, Metadatas \cup {Undefined})

NextSearch == CreateDocumentNamed

SpecSearch == InitDoc /\ [][NextSearch]_vars

(* ======================================================================== *)
(* Properties                                                               *)
(* ======================================================================== *)

(* ---- under Spec ---- *)

(* C1: for tenants T1 # T2 and a Fee, Template, Document or DocumentVersion E
   owned by T1, every by-id read made with E's id and tenantId = T2 returns
   null and no list read made with tenantId = T2 contains E: getFee, listFees,
   getTemplate, listTemplates, getDocument, listDocuments, getDocumentVersion,
   and the fee rows getCommissionsByUser returns with its commissions. *)
C1_TenantIsolatedReads ==
  \A t2 \in Ids(tenants) :
    /\ \A f \in fees : f.tenantId # t2 =>
         /\ getFee(f.id, t2) = Null
         /\ \A caseId \in CaseIds \cup {Undefined} :
              \A r \in listFees(t2, caseId) : r.fee # f
         /\ \A userId \in Ids(users) :
              \A r \in getCommissionsByUser(userId, t2) : r.fee # f
    /\ \A tpl \in templates : tpl.tenantId # t2 =>
         /\ getTemplate(tpl.id, t2) = Null
         /\ \A category \in Categories \cup {Undefined} :
              tpl \notin listTemplates(t2, category)
    /\ \A d \in documents : d.tenantId # t2 =>
         /\ getDocument(d.id, t2) = Null
         /\ d \notin listDocuments(t2, Undefined)
         /\ \A i \in DOMAIN versions :
              versions[i].documentId = d.id =>
                getDocumentVersion(d.id, versions[i].version, t2) = Null

(* C2: updateTemplate, deleteTemplate, updateFeeStatus and
   updateCommissionStatus called with the tenant id of a tenant that does not
   own the entity fail exactly as they do for an id no row has, and leave the
   entity as it is. *)
C2_CrossTenantWrites ==
  \A t2 \in Ids(tenants) :
    /\ \A tpl \in templates : tpl.tenantId # t2 =>
         /\ \A name \in TemplateNames \cup {Undefined},
               category \in Categories \cup {Undefined} :
              LET data == [name |-> name, category |-> category]
              IN updateTemplate(tpl.id, t2, data)
                   = updateTemplate(NewId("template"), t2, data)
         /\ deleteTemplate(tpl.id, t2) = deleteTemplate(NewId("template"), t2)
    /\ \A f \in fees : f.tenantId # t2 =>
         \A status \in Statuses, paidDate \in Dates \cup {NoDate} :
           updateFeeStatus(f.id, t2, status, paidDate)
             = updateFeeStatus(NewId("fee"), t2, status, paidDate)
    /\ \A c \in commissions : c.tenantId # t2 =>
         \A status \in Statuses, paidDate \in Dates \cup {NoDate} :
           updateCommissionStatus(c.id, t2, status, paidDate)
             = updateCommissionStatus(NewId("commission"), t2, status, paidDate)

(* C3: the tenant of every persisted Commission is the tenant of the Fee it
   references and the tenant of the User it references. *)
C3_CommissionTenant ==
  \A c \in commissions :
    /\ \A f \in fees : f.id = c.feeId => f.tenantId = c.tenantId
    /\ \A u \in users : u.id = c.userId => u.tenantId = c.tenantId

(* ---- under SpecHttp ---- *)

PublicUserRoutes == {"POST /api/users/register", "POST /api/users/login"}

(* C4: a request to any route under /api/tenants, /api/templates, /api/fees,
   /api/documents, or under /api/users other than register and login, that
   carries no token or one that does not verify is answered 401, without a
   database read or write and without its controller running. *)
C4_BadTokenRejected ==
  (/\ req.pc = "done"
   /\ req.route \notin PublicUserRoutes
   /\ req.token.kind # "valid")
  => (req.status = 401 /\ req.ops = <<>> /\ ~req.ran)

(* C5: when authenticateToken checks a validly signed token while no User row
   has the id and the tenant its payload names, the request is answered 401
   there, its controller never runs and the store is left as it is; and the
   row of a deleted user never comes back. *)
C5_RevokedTokenRejected ==
  [][/\ (/\ req.pc = "middleware"
         /\ req' # req
         /\ Middleware(req.route)[req.at] = "authenticateToken"
         /\ req.token.kind = "valid"
         /\ ~\E u \in users : /\ u.id = req.token.claims.userId
                              /\ u.tenantId = req.token.claims.tenantId)
        => (/\ req'.pc = "done"
            /\ req'.status = 401
            /\ ~req'.ran
            /\ users' = users)
     /\ \A i \in 1..nextId["user"] : i \notin Ids(users) => i \notin Ids(users')
    ]_vars

(* a request with a token of this server was answered 401 by the guard after
   the user of the token had been deleted *)
C5_Witness ==
  /\ req.pc = "done"
  /\ req.token.kind = "valid"
  /\ req.token.claims.userId \notin Ids(users)
  /\ req.status = 401
  /\ req.ops = <<"user.findFirst">>
  /\ ~req.ran

(* C6: a request to DELETE /api/users/:userId, PATCH /api/users/role or
   GET /api/users whose authenticated identity does not carry the role ADMIN
   never reaches its controller and is answered 403 having made no database
   operation but the guard's read, whoever the target user is. *)
C6_NonAdminForbidden ==
  (/\ req.pc # "idle"
   /\ req.route \in AdminRoutes
   /\ req.user # Null
   /\ req.user.role # "ADMIN")
  => /\ req.pc # "controller"
     /\ ~req.ran
     /\ req.pc = "done" => (req.status = 403 /\ req.ops = <<"user.findFirst">>)

(* an authenticated request to delete a user of another tenant was answered
   403 and the user is still there *)
C6_Witness ==
  /\ req.pc = "done"
  /\ req.route = "DELETE /api/users/:userId"
  /\ req.user # Null
  /\ req.status = 403
  /\ \E caller \in users : caller.id = req.user.userId /\ caller.role = "USER"
  /\ \E u \in users : u.id = req.body.id /\ u.tenantId # req.user.tenantId

(* C7: the token issued at registration or login carries the user's role, so
   a GET /api/users request made with the token of a user whose persisted
   role is ADMIN passes requireRole(['ADMIN']): it reaches its controller and
   is not answered 403. *)
C7_AdminPasses ==
  (/\ req.pc = "done"
   /\ req.route = "GET /api/users"
   /\ req.user # Null
   /\ \E u \in users : /\ u.id = req.user.userId
                       /\ u.tenantId = req.user.tenantId
                       /\ u.role = "ADMIN")
  => (req.status # 403 /\ req.ran)

CreateRoutes == {"POST /api/templates", "POST /api/fees", "POST /api/documents"}

(* C8: a request to POST /api/templates, POST /api/fees or POST /api/documents
   (with its file) that passed authenticateToken is not answered 401. *)
C8_CreateHandlersAccept ==
  (/\ req.pc = "done"
   /\ req.route \in CreateRoutes
   /\ req.user # Null
   /\ req.route = "POST /api/documents" => req.body.file)
  => req.status # 401

(* ---- under SpecDoc ---- *)

Quiet(id) == ~\E c \in CallIds : InProgress(calls[c]) /\ calls[c].id = id

(* C9, as the code has it: after createDocument and N updateDocument calls on
   the document that each ran alone and succeeded, Document.version is N + 1
   and the document has exactly N DocumentVersion rows, carrying the versions
   2..N+1 in upload order. *)
C9_VersionChain ==
  \A d \in documents :
    (hist[d.id].alone /\ Quiet(d.id)) =>
      LET rows == VersionsOf(d.id)
          N == hist[d.id].updates
      IN /\ d.version = N + 1
         /\ Len(rows) = N
         /\ \A i \in 1..N : rows[i].version = i + 1

(* a document that two updates, each alone and successful, have gone over *)
C9_Witness ==
  \E d \in documents :
    /\ hist[d.id].alone
    /\ Quiet(d.id)
    /\ hist[d.id].updates >= 2

(* C9, as stated: ... exactly N DocumentVersion rows carrying the versions
   1..N in upload order. *)
C9_VersionChainFromOne ==
  \A d \in documents :
    (hist[d.id].alone /\ Quiet(d.id)) =>
      LET rows == VersionsOf(d.id)
          N == hist[d.id].updates
      IN /\ d.version = N + 1
         /\ Len(rows) = N
         /\ \A i \in 1..N : rows[i].version = i

(* C10: whenever no updateDocument call is under way on a document, its
   version is the number of its DocumentVersion rows plus one, whatever calls
   interleaved before and whichever of their writes failed. *)
C10_VersionCount ==
  \A d \in documents :
    Quiet(d.id) => d.version = Len(VersionsOf(d.id)) + 1

(* the updateDocument calls that have inserted their DocumentVersion row *)
Inserted == {c \in CallIds : calls[c].pc \in {"inserted", "done"}}

(* the DocumentVersion rows of a document that carry a given url *)
RowsWithUrl(id, url) ==
  {i \in DOMAIN versions : versions[i].documentId = id /\ versions[i].url = url}

(* C11, as the code has it: the DocumentVersion row an updateDocument call
   inserts holds the url of the blob that call uploaded, the ocrText and the
   metadata of that call (NULL where the call has none) and the successor
   version number, never the url the Document had before; after a call that
   ran alone the Document holds that same url and version, and the row's
   ocrText and metadata wherever the row has them. *)
C11_VersionRowHoldsNew ==
  /\ \A c \in Inserted :
       LET call == calls[c]
       IN /\ \E b \in blobs : CdnUrl(b.key) = call.url /\ b.body = call.file
          /\ call.url # call.document.url
          /\ \E i \in RowsWithUrl(call.id, call.url) :
               /\ versions[i].version = call.document.version + 1
               /\ versions[i].ocrText = OrNull(call.ocrText)
               /\ versions[i].metadata = OrNull(Stringify(call.metadata))
          /\ \A i \in RowsWithUrl(call.id, call.url) : RowsWithUrl(call.id, call.url) = {i}
  /\ \A d \in documents :
       (hist[d.id].alone /\ Quiet(d.id) /\ hist[d.id].updates >= 1) =>
         LET rows == VersionsOf(d.id)
             last == rows[Len(rows)]
         IN /\ d.url = last.url
            /\ d.version = last.version
            /\ last.ocrText # SqlNull => d.ocrText = last.ocrText
            /\ last.metadata # SqlNull => d.metadata = last.metadata

(* an update without metadata ran alone on a document that has metadata: the
   row it inserted has none, the document kept its own *)
C11_Witness ==
  \E c \in CallIds :
    /\ calls[c].pc = "done"
    /\ calls[c].metadata = Undefined
    /\ hist[calls[c].id].alone
    /\ Quiet(calls[c].id)
    /\ \E d \in documents : d.id = calls[c].id /\ d.metadata # SqlNull
    /\ \E i \in RowsWithUrl(calls[c].id, calls[c].url) : versions[i].metadata = SqlNull

(* C11, as stated: the DocumentVersion row an updateDocument call inserts
   holds the url, ocrText and metadata the Document had immediately before
   the call. *)
C11_VersionRowHoldsPrior ==
  \A c \in Inserted :
    LET call == calls[c]
    IN hist[call.id].alone =>
         \E i \in DOMAIN versions :
           /\ versions[i].documentId = call.id
           /\ versions[i].url = call.document.url
           /\ versions[i].ocrText = call.document.ocrText
           /\ versions[i].metadata = call.document.metadata

(* C12: DocumentVersion is append-only: every step leaves each existing
   DocumentVersion row in place with the field values it has; rows are only
   added. *)
C12_AppendOnly ==
  [][/\ Len(versions') >= Len(versions)
     /\ \A i \in DOMAIN versions : versions'[i] = versions[i]]_vars

(* two DocumentVersion rows are there and the Document was rewritten after
   the first of them was inserted *)
C12_Witness ==
  /\ Len(versions) >= 2
  /\ \E c \in CallIds : calls[c].pc = "done"

(* no updateDocument call has got past its read of the document *)
Untouched(id) == hist[id].updates = 0 /\ hist[id].alone /\ Quiet(id)

(* C13: getDocument with the creator's tenant returns the document created
   with the name, MIME type and size that were supplied; as long as no update
   has touched it, its version is 1 and its list of versions is empty. *)
C13_CreateGetRoundTrip ==
  \A id \in DOMAIN hist :
    LET supplied == hist[id].supplied
        got == getDocument(id, supplied.tenantId)
    IN /\ got # Null
       /\ got.document.id = id
       /\ got.document.name = supplied.name
       /\ got.document.mimeType = supplied.mimeType
       /\ got.document.size = supplied.size
       /\ Untouched(id) => (got.document.version = 1 /\ got.versions = <<>>)

(* a document of a type without OCR was created and nothing has touched it *)
C13_Witness ==
  \E id \in DOMAIN hist :
    /\ Untouched(id)
    /\ hist[id].supplied.mimeType \notin OcrTypes
    /\ getDocument(id, hist[id].supplied.tenantId) # Null

(* C14: every persisted commission has amount = fee.amount * percentage / 100
   for the fee it names (1000 at 15 gives 150, 2000 at 10 gives 200), every
   createCommission call that succeeds persists exactly such a row, and a
   call naming a fee id that does not exist fails with 'Fee not found' and
   leaves the Commission table as it was. *)
C14_CommissionAmount ==
  /\ CommissionAmount(1000, 15) = 150
  /\ CommissionAmount(2000, 10) = 200
  /\ \A c \in commissions :
       \E f \in fees : f.id = c.feeId /\ c.amount * 100 = f.amount * c.percentage
  /\ \A feeId \in SomeIds("fee"), userId \in SomeIds("user"),
        tenantId \in SomeIds("tenant"), percentage \in Percentages :
       LET r == createCommission([feeId |-> feeId, userId |-> userId,
                                  percentage |-> percentage, tenantId |-> tenantId])
       IN IF feeId \notin Ids(fees)
            THEN /\ r.res = "Fee not found"
                 /\ r.commission = Null
                 /\ r.commissions = commissions
          ELSE r.res = "ok" =>
                 /\ r.commission.amount * 100 = Row(fees, feeId).amount * percentage
                 /\ r.commission.percentage = percentage
                 /\ r.commissions = commissions \cup {r.commission}

(* a commission of 10 percent on a fee of 2000 is persisted with amount 200
   while some fee id is still unused *)
C14_Witness ==
  /\ \E c \in commissions, f \in fees :
       f.id = c.feeId /\ f.amount = 2000 /\ c.percentage = 10 /\ c.amount = 200
  /\ \E feeId \in SomeIds("fee") : feeId \notin Ids(fees)

(* C15: no step changes the amount, the percentage or the fee of a Commission
   row that exists; every row that exists before a step exists after it with
   the same three values. *)
C15_CommissionAmountFixed ==
  [][\A c \in commissions :
       \E d \in commissions' :
         /\ d.id = c.id
         /\ d.amount = c.amount
         /\ d.percentage = c.percentage
         /\ d.feeId = c.feeId]_vars

(* two commissions stand on the same fee, the fee and the first commission
   have had their status written *)
C15_Witness ==
  \E c \in commissions, d \in commissions, f \in fees :
    /\ c.id # d.id
    /\ c.feeId = f.id
    /\ d.feeId = f.id
    /\ c.percentage # d.percentage
    /\ f.status # NoStatus
    /\ c.status # NoStatus

(* C16: in every reachable state, whatever the interleaving of concurrent
   createUser and updateUserProfile calls, no two User rows have the same
   email. *)
C16_EmailUnique ==
  \A u \in users : \A v \in users : u.email = v.email => u.id = v.id

(* two registrations of one email both passed the lookup and both finished,
   beside a user registered before them *)
C16_Witness ==
  /\ \E c \in CallIds, d \in CallIds :
       /\ c # d
       /\ calls[c].op = "register" /\ calls[d].op = "register"
       /\ calls[c].pc = "done" /\ ~calls[c].found
       /\ calls[d].pc = "done" /\ ~calls[d].found
       /\ calls[c].email = calls[d].email
  /\ \E u \in users, v \in users : u.id # v.id

(* C17: every registration is answered 201 with its user created or 400
   with no user created, the latter whenever the email is taken; of two
   concurrent registrations of one new email exactly one creates a user and
   the other is answered 400. *)
C17_DuplicateRegistration400 ==
  /\ \A c \in CallIds :
       (calls[c].op = "register" /\ calls[c].pc = "done") =>
         \/ calls[c].status = 201 /\ calls[c].created
         \/ calls[c].status = 400 /\ ~calls[c].created
  /\ \A c \in CallIds, d \in CallIds :
       (/\ c # d
        /\ calls[c].op = "register" /\ calls[d].op = "register"
        /\ calls[c].pc = "done" /\ calls[d].pc = "done"
        /\ ~calls[c].found /\ ~calls[d].found
        /\ calls[c].email = calls[d].email) =>
         \/ calls[c].status = 201 /\ calls[d].status = 400
         \/ calls[c].status = 400 /\ calls[d].status = 201

(* the step in which the controller of `route` answers the request *)
Answers(route) == req.pc = "controller" /\ req.route = route /\ req'.pc = "done"

(* C18: login is answered 200 with a token carrying the user's id and tenant
   id exactly when a persisted user has the email and the password matches
   its stored hash; otherwise it is answered 401 'Invalid credentials', the
   same for an unknown email as for a wrong password, and no token is
   issued; in both cases no table changes. *)
C18_LoginOutcome ==
  [][Answers("POST /api/users/login") =>
       LET owners == {u \in users : /\ u.email = req.body.email
                                    /\ u.password = Hash(req.body.password)}
       IN /\ <<tenants, users, fees, commissions, templates, documents,
               versions, blobs, nextId>>' =
             <<tenants, users, fees, commissions, templates, documents,
               versions, blobs, nextId>>
          /\ IF owners # {}
               THEN /\ req'.status = 200
                    /\ \E u \in owners : /\ req'.sent.token # Null
                                         /\ req'.sent.token.userId = u.id
                                         /\ req'.sent.token.tenantId = u.tenantId
             ELSE /\ req'.status = 401
                  /\ req'.sent = ErrorJson("Invalid credentials")
                  /\ issued' = issued]_vars

(* a login with a registered email and a wrong password was answered 401 *)
C18_Witness ==
  /\ req.pc = "done"
  /\ req.route = "POST /api/users/login"
  /\ req.status = 401
  /\ req.body.password = "wrong"
  /\ \E u \in users : u.email = req.body.email

(* C19: no response carries a user object with a password field; register
   and login answer with the user of the email sent and a token for that
   user's id, and GET /api/users/profile answers with the email of the user
   whose id the token carries. *)
C19_NoPasswordInResponses ==
  [][(req.pc # "idle" /\ req.pc # "done" /\ req'.pc = "done") =>
       /\ \A u \in req'.sent.users : "password" \notin DOMAIN u
       /\ (req.route \in {"POST /api/users/register", "POST /api/users/login"}
           /\ req'.status \in {200, 201}) =>
            \E u \in req'.sent.users :
              /\ u.email = req.body.email
              /\ req'.sent.token # Null
              /\ req'.sent.token.userId = u.id
              /\ \E row \in users' : row.id = u.id /\ row.email = u.email
       /\ (req.route = "GET /api/users/profile" /\ req'.status = 200) =>
            \E u \in req'.sent.users :
              /\ u.id = req.token.claims.userId
              /\ \E row \in users : row.id = u.id /\ row.email = u.email]_vars

(* GET /api/users/profile with an issued token was answered with the user,
   whose row holds a password hash *)
C19_Witness ==
  /\ req.pc = "done"
  /\ req.route = "GET /api/users/profile"
  /\ req.status = 200
  /\ req.token.kind = "valid"
  /\ \E u \in req.sent.users :
       \E row \in users : row.id = u.id /\ row.email = u.email
                          /\ row.password = Hash("pw1")

(* C20: an updateDocument call whose id names no document of the caller's
   tenant, because no document has the id or because the document is another
   tenant's, fails with 'Document not found' at its lookup: no blob is
   stored, no DocumentVersion row is inserted, no Document row changes, and
   what the caller gets is the same in both cases. *)
C20_NotFoundBeforeEffects ==
  [][\A c \in CallIds :
       (calls[c].pc = "idle" /\ calls'[c].pc # "idle"
        /\ ~\E d \in documents : d.id = calls'[c].id /\ d.tenantId = calls'[c].tenantId) =>
         /\ calls'[c] = [IdleCall EXCEPT !.pc = "failed", !.res = "Document not found",
                                         !.id = calls'[c].id,
                                         !.tenantId = calls'[c].tenantId]
         /\ blobs' = blobs
         /\ versions' = versions
         /\ documents' = documents]_vars

(* a call on another tenant's document has failed beside one on an id that
   no document has, with the same result *)
C20_Witness ==
  \E c \in CallIds, b \in CallIds :
    /\ calls[c].res = "Document not found"
    /\ calls[b].res = "Document not found"
    /\ \E d \in documents : d.id = calls[c].id /\ d.tenantId # calls[c].tenantId
    /\ calls[b].id \notin Ids(documents)

(* the row of fee `id` after updateFeeStatus(id, tenantId, status, paidDate) *)
FeeAfter(id, tenantId, status, paidDate) ==
  Row(updateFeeStatus(id, tenantId, status, paidDate).fees, id)

(* C21: every successful updateFeeStatus call sets the fee's status to the
   supplied status and leaves every other fee as it was; it sets paidDate to
   the supplied date when one is supplied and leaves paidDate as it was when
   none is. *)
C21_StatusAndOptionalPaidDate ==
  \A id \in Ids(fees), tenantId \in Ids(tenants), status \in Statuses,
     paidDate \in Dates \cup {NoDate} :
    LET r == updateFeeStatus(id, tenantId, status, paidDate)
        old == Row(fees, id)
        new == FeeAfter(id, tenantId, status, paidDate)
    IN /\ r.res = "ok"
       /\ r.fees \ {new} = fees \ {old}
       /\ new.status = status
       /\ new.paidDate = IF paidDate # NoDate THEN paidDate ELSE old.paidDate
       /\ new.amount = old.amount

(* a fee was moved to PAID by a call without a date and has no paidDate *)
C21_Witness ==
  \E f \in fees : f.status = "PAID" /\ f.paidDate = NoDate

(* C21 as stated: every successful updateFeeStatus call leaves the fee with
   the supplied status and a paidDate. *)
C21_AlwaysStampsPaidDate ==
  \A id \in Ids(fees), tenantId \in Ids(tenants), status \in Statuses,
     paidDate \in Dates \cup {NoDate} :
    /\ FeeAfter(id, tenantId, status, paidDate).status = status
    /\ FeeAfter(id, tenantId, status, paidDate).paidDate # NoDate

(* the filters a caller can send with a list request *)
CaseFilters == ListCaseIds \cup {Undefined, ""}

CategoryFilters == ListCategories \cup {Undefined, ""}

(* `seq` lists exactly the rows of `rows`, each once, newest first *)
ListsNewestFirst(seq, rows) ==
  /\ Len(seq) = Cardinality(rows)
  /\ {seq[i] : i \in DOMAIN seq} = rows
  /\ \A i \in DOMAIN seq, j \in DOMAIN seq : i < j => seq[i].id > seq[j].id

(* C22: listFees, listDocuments and listTemplates return exactly the rows of
   the given tenant, only those equal on caseId or category when that filter
   is given, newest first; with the filter missing or empty they return all
   of the tenant's rows. *)
C22_ListsFilteredNewestFirst ==
  \A t \in Ids(tenants) :
    /\ \A caseId \in CaseFilters :
         /\ ListsNewestFirst(
              [i \in DOMAIN listFeesInOrder(t, caseId) |->
                 listFeesInOrder(t, caseId)[i].fee],
              {f \in fees : /\ f.tenantId = t
                            /\ caseId \in ListCaseIds => f.caseId = caseId})
         /\ ListsNewestFirst(
              listDocumentsInOrder(t, caseId),
              {d \in documents : /\ d.tenantId = t
                                 /\ caseId \in ListCaseIds => d.caseId = caseId})
    /\ \A category \in CategoryFilters :
         ListsNewestFirst(
           listTemplatesInOrder(t, category),
           {x \in templates : /\ x.tenantId = t
                              /\ category \in ListCategories => x.category = category})

(* one tenant has two fees of different cases, two templates of different
   categories and two documents of different cases *)
C22_Witness ==
  \E t \in Ids(tenants) :
    /\ \E f \in fees, g \in fees :
         f.tenantId = t /\ g.tenantId = t /\ f.caseId # g.caseId
    /\ \E x \in templates, y \in templates :
         x.tenantId = t /\ y.tenantId = t /\ x.category # y.category
    /\ \E d \in documents, k \in documents :
         d.tenantId = t /\ k.tenantId = t /\ d.caseId # k.caseId

(* the queries sent to the search *)
Queries == {"policy", "SAMPLE", "M1", "zzz"}

(* what a query has to find among the documents of this model: "policy" the
   documents named Policy_ABC, "SAMPLE" those with the OCR text, "M1" those
   with the metadata m1, "zzz" none *)
Finds(query, d) ==
  CASE query = "policy" -> d.name = "Policy_ABC"
    [] query = "SAMPLE" -> d.ocrText = SampleText
    [] query = "M1" -> d.metadata = Stringify("m1")
    [] query = "zzz" -> FALSE

(* C23: searchDocuments(tenant, q) returns, newest first, exactly the
   tenant's documents in which q occurs, whatever the case of its letters,
   in the name, the OCR text or the serialized metadata; a document named
   Policy_ABC is returned for the query policy. *)
C23_SearchFindsInsensitive ==
  \A t \in Ids(tenants), query \in Queries :
    ListsNewestFirst(searchDocumentsInOrder(t, query),
                     {d \in documents : d.tenantId = t /\ Finds(query, d)})

(* a tenant has a document named Policy_ABC and one that is not, and the
   search for policy returns the first *)
C23_Witness ==
  \E d \in documents, k \in documents :
    /\ d.tenantId = k.tenantId
    /\ d.name = "Policy_ABC"
    /\ k.name = "invoice"
    /\ k.ocrText = SampleText
    /\ d \in searchDocuments(d.tenantId, "policy")
    /\ k \notin searchDocuments(d.tenantId, "policy")

(* the other updateDocument call has finished on the same document and had
   read the same version as call c *)
RacedWith(c, b) ==
  /\ b # c
  /\ calls[b].pc = "done"
  /\ calls[b].id = calls[c].id
  /\ calls[b].document.version = calls[c].document.version

(* call c runs its Document update statement, successfully, in this step *)
Writes(c) == calls[c].pc = "inserted" /\ calls'[c].pc = "done"

(* C24, as the code has it: when two updateDocument calls on a document both
   read version v before either writes, both complete without error and the
   second Document update leaves version v + 1, not v + 2, with the url of
   the call that ran it; ocrText and metadata are that call's where it has
   them, and a field it does not supply keeps the value found in the row. *)
C24_LastWriterWins ==
  [][\A c \in CallIds, b \in CallIds :
       (Writes(c) /\ RacedWith(c, b)) =>
         LET v == calls[c].document.version
             before == Row(documents, calls[c].id)
             after == Row(documents', calls[c].id)
         IN /\ calls'[c].res = "ok" /\ calls'[b].res = "ok"
            /\ after.version = v + 1
            /\ after.url = calls[c].url
            /\ after.ocrText = IF calls[c].ocrText = Undefined THEN before.ocrText
                               ELSE calls[c].ocrText
            /\ after.metadata = IF calls[c].metadata = Undefined THEN before.metadata
                                ELSE Stringify(calls[c].metadata)]_vars

(* both calls read the same version and finished; the one that wrote last
   supplied no metadata and the document still has metadata *)
C24_Witness ==
  \E c \in CallIds, b \in CallIds, d \in documents :
    /\ calls[c].pc = "done"
    /\ RacedWith(c, b)
    /\ d.id = calls[c].id
    /\ d.url = calls[c].url
    /\ d.version = calls[c].document.version + 1
    /\ calls[c].metadata = Undefined
    /\ d.metadata # SqlNull

(* C24 as stated: after the second Document update the version is v + 1 and
   url, ocrText and metadata are those of the call that ran it. *)
C24_LastWriterFields ==
  [][\A c \in CallIds, b \in CallIds :
       (Writes(c) /\ RacedWith(c, b)) =>
         LET after == Row(documents', calls[c].id)
         IN /\ calls'[c].res = "ok" /\ calls'[b].res = "ok"
            /\ after.version = calls[c].document.version + 1
            /\ after.url = calls[c].url
            /\ after.ocrText = OrNull(calls[c].ocrText)
            /\ after.metadata = OrNull(Stringify(calls[c].metadata))]_vars

(* call c throws in this step, after its upload *)
ThrowsAfterUpload(c) ==
  calls[c].pc \in {"uploaded", "inserted"} /\ calls'[c].pc = "failed"

(* C26: when a database write of updateDocument fails after the upload, the
   call reports an error and nothing is rolled back: the uploaded blob is
   still in object storage and no object is ever removed; when the failing
   write is the Document update, the DocumentVersion row the call inserted
   is still there and the Document row is as it was before that write. *)
C26_NoRollback ==
  [][/\ blobs \subseteq blobs'
     /\ \A c \in CallIds :
          ThrowsAfterUpload(c) =>
            /\ calls'[c].res \in {"documentVersion.create failed",
                                  "document.update failed"}
            /\ \E o \in blobs' : CdnUrl(o.key) = calls[c].url /\ o.body = calls[c].file
            /\ documents' = documents
            /\ versions' = versions
            /\ calls[c].pc = "inserted" =>
                 /\ calls'[c].res = "document.update failed"
                 /\ RowsWithUrl(calls[c].id, calls[c].url) # {}
                 /\ \A i \in RowsWithUrl(calls[c].id, calls[c].url) :
                      versions'[i] = versions[i]]_vars

(* a call whose Document update failed: its blob and its DocumentVersion row
   are there and the document has another url and a lower version *)
C26_Witness ==
  \E c \in CallIds, d \in documents, i \in DOMAIN versions, o \in blobs :
    /\ calls[c].res = "document.update failed"
    /\ d.id = calls[c].id
    /\ versions[i].documentId = d.id
    /\ versions[i].url # d.url
    /\ versions[i].version = d.version + 1
    /\ CdnUrl(o.key) = versions[i].url

(* the MIME types the claim names *)
NamedOcrTypes == {"application/pdf", "image/jpeg", "image/png"}

(* ocrText is there exactly for the named types: in every Document row, in
   every DocumentVersion row by the type of its document, and in every call
   that has uploaded by the type of the document it read *)
OcrByMimeType ==
  /\ \A file \in Files, mimeType \in NamedOcrTypes \cup MimeTypes :
       (OcrText(file, mimeType) # Undefined) <=> (mimeType \in NamedOcrTypes)
  /\ \A d \in documents :
       /\ (d.ocrText # SqlNull) <=> (d.mimeType \in NamedOcrTypes)
       /\ d.mimeType = hist[d.id].supplied.mimeType
       /\ \A i \in DOMAIN versions :
            versions[i].documentId = d.id =>
              ((versions[i].ocrText # SqlNull) <=> (d.mimeType \in NamedOcrTypes))
  /\ \A c \in CallIds :
       calls[c].pc \in {"uploaded", "inserted", "done"} =>
         ((calls[c].ocrText # Undefined) <=>
            (calls[c].document.mimeType \in NamedOcrTypes))

(* C27: a document's ocrText is populated exactly when the MIME type checked
   is application/pdf, image/jpeg or image/png: createDocument checks the
   type declared with the upload, updateDocument the type stored with the
   document, and no step changes a document's stored type. *)
C27_OcrByMimeType ==
  [][/\ OcrByMimeType'
     /\ \A d \in documents :
          \E e \in documents' : e.id = d.id /\ e.mimeType = d.mimeType]_vars

(* a document of a type without OCR has been updated and has no ocrText,
   nor has its DocumentVersion row *)
C27_Witness ==
  \E d \in documents, i \in DOMAIN versions :
    /\ d.mimeType = "text/plain"
    /\ hist[d.id].updates >= 1
    /\ d.ocrText = SqlNull
    /\ versions[i].documentId = d.id
    /\ versions[i].ocrText = SqlNull

AdminUserRoutes == {"PATCH /api/users/role", "DELETE /api/users/:userId"}

(* the user a request's token was signed for, if the token is genuine *)
Caller ==
  IF req.pc = "idle" THEN Null
  ELSE IF req.token.kind # "valid" THEN Null
  ELSE FindFirst({u \in users : u.id = req.token.claims.userId})

(* the request is one of an ADMIN on `route` that names `target`, a user of
   another tenant *)
AdminNamesForeignUser(target) ==
  /\ req.pc # "idle"
  /\ req.route \in AdminUserRoutes
  /\ Caller # Null
  /\ Caller.role = "ADMIN"
  /\ target.id = req.body.id
  /\ target.tenantId # Caller.tenantId

(* C28: no step of a request to PATCH /api/users/role or DELETE
   /api/users/:userId made with the token of an ADMIN of one tenant changes
   or deletes the row of a user of another tenant that the request names. *)
C28_AdminCannotTouchForeignUser ==
  [][\A target \in users :
       (AdminNamesForeignUser(target) /\ req' # req) => target \in users']_vars

(* an ADMIN's request to make a user of another tenant an ADMIN has been
   answered and that user is still a USER *)
C28_Witness ==
  \E target \in users :
    /\ AdminNamesForeignUser(target)
    /\ req.pc = "done"
    /\ req.route = "PATCH /api/users/role"
    /\ target.role = "USER"

(* C29: PUT /api/users/profile never changes any user's role, tenantId or
   stored password, whatever its body holds, and a user's role changes only
   in a PATCH /api/users/role request of an ADMIN. *)
C29_ProfileKeepsRole ==
  [][/\ Answers("PUT /api/users/profile") =>
          \A u \in users :
            \E v \in users' : /\ v.id = u.id
                              /\ v.role = u.role
                              /\ v.tenantId = u.tenantId
                              /\ v.password = u.password
     /\ \A u \in users, v \in users' :
          (v.id = u.id /\ v.role # u.role) =>
            /\ Answers("PATCH /api/users/role")
            /\ Caller # Null
            /\ Caller.role = "ADMIN"]_vars

(* the commission a step inserts *)
CreatedCommission == CHOOSE c \in commissions' : c \notin commissions

(* C30: a POST /api/fees/:feeId/commissions request whose path names a
   persisted fee and which is answered 201 has persisted one commission whose
   feeId is the path's feeId and whose amount is that fee's amount times the
   percentage over 100. *)
C30_CommissionForPathFee ==
  [][\A fee \in fees :
       (/\ Answers("POST /api/fees/:feeId/commissions")
        /\ fee.id = req.body.param
        /\ req'.status = 201) =>
         /\ Cardinality(commissions' \ commissions) = 1
         /\ CreatedCommission.feeId = fee.id
         /\ CreatedCommission.amount =
              CommissionAmount(fee.amount, CreatedCommission.percentage)]_vars

====
